---------------------------- MODULE Spec2Model ----------------------------
(***************************************************************************)
(* Model of the image-processing gRPC service:                             *)
(*   - the transform pipeline  (src/image_processor.py, ImageProcessor),   *)
(*   - the sender of the reply stream (src/image_server.py, transmit_img), *)
(*   - the receiver loop of the client (src/cmd_parser.py, process_image). *)
(*                                                                         *)
(* Text is modelled as a sequence of one-character strings, so that        *)
(* splitting, sign stripping and integer parsing are computed as the code  *)
(* computes them.  An image is a record of its shape (w, h, ch) and of the *)
(* sequence of OpenCV primitives that produced its pixels (px).  A byte    *)
(* buffer is a sequence of slices [f, lo, hi] of a file's content.         *)
(***************************************************************************)
EXTENDS Integers, Sequences, FiniteSets, TLC

(***************************************************************************)
(* Bounds of the model.                                                    *)
(***************************************************************************)
MaxOps == 3            \* longest operation list drawn from ListLines
ParamSpan == 725       \* numeric parameters are drawn from -ParamSpan..ParamSpan
EdgeSpan == 2          \* ... and from within EdgeSpan of +-MAXIMUM_ROTATION
MaxThumbs == 2         \* most secondary artifacts in a transmitted reply
MaxChunks == 2         \* artifacts are up to MaxChunks full chunks (and a byte) long
MaxInFlight == 2       \* frames the transport holds between sender and receiver
MaxUpChunks == 1       \* the uploaded file is up to MaxUpChunks full chunks (and a byte) long
MaxFrames == 3         \* longest frame sequence fed to the receiver

(***************************************************************************)
(* Module constants of src/image_processor.py.                             *)
(***************************************************************************)
FLIP == <<"f","l","i","p">>
ROTATE == <<"r","o","t","a","t","e">>
LEFT == <<"l","e","f","t">>
RIGHT == <<"r","i","g","h","t">>
GREYSCALE == <<"g","r","e","y","s","c","a","l","e">>
RESIZE == <<"r","e","s","i","z","e">>
THUMBNAIL == <<"t","h","u","m","b","n","a","i","l">>
HORIZONTAL == <<"h","o","r","i","z","o","n","t","a","l">>
VERTICAL == <<"v","e","r","t","i","c","a","l">>

RIGHT_DEGREES == -90
LEFT_DEGREES == 90
THUMBNAIL_SIZE == 200
MAXIMUM_PERCENT == 500
MINIMUM_PERCENT == -95
MINIMUM_ROTATION == -10000
MAXIMUM_ROTATION == 10000
HORIZ_FLIP == 1
VERT_FLIP == 0
DEGREES_MODULO == 360
SUCCESS_200 == 200
ERROR_400 == 400

(***************************************************************************)
(* Python string primitives.                                               *)
(***************************************************************************)
Whitespace == {" ", "\t", "\r"}
Digits == <<"0","1","2","3","4","5","6","7","8","9">>
IsDigit(c) == \E k \in 1..10 : Digits[k] = c
DigitVal(c) == (CHOOSE k \in 1..10 : Digits[k] = c) - 1

\* str.split(sep) for a one-character separator: the fields between
\* separators, empty fields kept ("" gives one empty field).
RECURSIVE SplitOn(_, _)
SplitOn(s, sep) ==
    IF \A k \in 1..Len(s) : s[k] # sep
    THEN <<s>>
    ELSE LET p == CHOOSE k \in 1..Len(s) :
                     s[k] = sep /\ \A j \in 1..(k - 1) : s[j] # sep
         IN  <<SubSeq(s, 1, p - 1)>> \o SplitOn(SubSeq(s, p + 1, Len(s)), sep)

\* str.split() without arguments: the maximal runs of non-whitespace.
RECURSIVE SplitWs(_)
SplitWs(s) ==
    IF \A k \in 1..Len(s) : s[k] \in Whitespace
    THEN <<>>
    ELSE LET a == CHOOSE k \in 1..Len(s) :
                     s[k] \notin Whitespace
                     /\ \A j \in 1..(k - 1) : s[j] \in Whitespace
             rest == SubSeq(s, a, Len(s))
             n == IF \A k \in 1..Len(rest) : rest[k] \notin Whitespace
                  THEN Len(rest)
                  ELSE (CHOOSE k \in 1..Len(rest) :
                            rest[k] \in Whitespace
                            /\ \A j \in 1..(k - 1) : rest[j] \notin Whitespace) - 1
         IN  <<SubSeq(rest, 1, n)>> \o SplitWs(SubSeq(rest, n + 1, Len(rest)))

\* sep.join(parts)
RECURSIVE Join(_, _)
Join(parts, sep) ==
    IF parts = <<>> THEN <<>>
    ELSE IF Len(parts) = 1 THEN parts[1]
    ELSE parts[1] \o <<sep>> \o Join(Tail(parts), sep)

\* The digits of int(): one or more digits, single underscores allowed
\* between digits.  acc is the value read so far; -1 reports a ValueError.
RECURSIVE ParseDigits(_, _, _)
ParseDigits(s, acc, afterDigit) ==
    IF s = <<>> THEN (IF afterDigit THEN acc ELSE -1)
    ELSE IF IsDigit(s[1]) THEN ParseDigits(Tail(s), 10 * acc + DigitVal(s[1]), TRUE)
    ELSE IF s[1] = "_" /\ afterDigit THEN ParseDigits(Tail(s), acc, FALSE)
    ELSE -1

\* int(s): [ok |-> FALSE] stands for ValueError.
PyInt(s) ==
    LET neg == s # <<>> /\ s[1] = "-"
        body == IF s # <<>> /\ s[1] \in {"+", "-"} THEN Tail(s) ELSE s
        v == ParseDigits(body, 0, FALSE)
    IN  IF v < 0 THEN [ok |-> FALSE, val |-> 0]
        ELSE [ok |-> TRUE, val |-> IF neg THEN 0 - v ELSE v]


(***************************************************************************)
(* OpenCV primitives, as far as the pipeline depends on them: the shape of *)
(* the result and whether the call raises cv2.error.                       *)
(***************************************************************************)
Prim(fn, a, b) == [fn |-> fn, a |-> a, b |-> b]

\* cv2.imread of an upload that decodes to a w x h image: 3 channels (BGR).
Cv2Imread(w, h) == [w |-> w, h |-> h, ch |-> 3, px |-> <<>>]

\* cv2.flip(img, code): same shape, mirrored pixels.
Cv2Flip(im, code) == [im EXCEPT !.px = Append(@, Prim("flip", code, 0))]

\* cv2.cvtColor(img, COLOR_BGR2GRAY): needs a 3-channel input, else cv2.error.
Cv2CvtColorRaises(im) == im.ch # 3
Cv2CvtColor(im) == [im EXCEPT !.ch = 1, !.px = Append(@, Prim("cvtColor", 0, 0))]

\* cv2.warpAffine(img, M, (bw, bh)) with M the rotation by angle degrees.
Cv2WarpAffine(im, angle, bw, bh) ==
    [im EXCEPT !.w = bw, !.h = bh, !.px = Append(@, Prim("warpAffine", angle, 0))]

\* cvRound of num/100 (num >= 0): the nearest integer; the product is a
\* double, so at an exact tie either neighbour can come out.
CvRound(num) ==
    LET q == num \div 100
        r == num % 100
    IN  IF r < 50 THEN {q} ELSE IF r > 50 THEN {q + 1} ELSE {q, q + 1}

\* cv2.resize(img, None, fx=f, fy=f) with f = factor/100: the sizes
\* (cvRound(w*f), cvRound(h*f)) it can compute; an empty size is cv2.error.
Cv2ResizeSizes(im, factor) ==
    {<<nw, nh>> : nw \in CvRound(im.w * factor), nh \in CvRound(im.h * factor)}
Cv2ResizeTo(im, nw, nh) ==
    [im EXCEPT !.w = nw, !.h = nh, !.px = Append(@, Prim("resize", nw, nh))]

\* |sin| of 0..90 degrees, scaled by 10^9 (index a + 1).
SinTable ==
    << 0, 17452406, 34899497, 52335956, 69756474, 87155743, 104528463,
       121869343, 139173101, 156434465, 173648178, 190808995, 207911691,
       224951054, 241921896, 258819045, 275637356, 292371705, 309016994,
       325568154, 342020143, 358367950, 374606593, 390731128, 406736643,
       422618262, 438371147, 453990500, 469471563, 484809620, 500000000,
       515038075, 529919264, 544639035, 559192903, 573576436, 587785252,
       601815023, 615661475, 629320391, 642787610, 656059029, 669130606,
       681998360, 694658370, 707106781, 719339800, 731353702, 743144825,
       754709580, 766044443, 777145961, 788010754, 798635510, 809016994,
       819152044, 829037573, 838670568, 848048096, 857167301, 866025404,
       874619707, 882947593, 891006524, 898794046, 906307787, 913545458,
       920504853, 927183855, 933580426, 939692621, 945518576, 951056516,
       956304756, 961261696, 965925826, 970295726, 974370065, 978147601,
       981627183, 984807753, 987688341, 990268069, 992546152, 994521895,
       996194698, 997564050, 998629535, 999390827, 999847695, 1000000000 >>

Abs(x) == IF x < 0 THEN 0 - x ELSE x

\* abs(math.sin(math.radians(r))) and abs(math.cos(...)), scaled by 10^9.
AbsSin(r) ==
    LET a == Abs(r) % 180
    IN  SinTable[(IF a > 90 THEN 180 - a ELSE a) + 1]
AbsCos(r) ==
    LET a == Abs(r) % 180
    IN  SinTable[(90 - (IF a > 90 THEN 180 - a ELSE a)) + 1]

\* Mutant of Bound: the sum rounded up instead of truncated.
Bound_Ceil(x, sx, y, sy) ==
    LET hi == x * (sx \div 100000) + y * (sy \div 100000)
        lo == x * (sx % 100000) + y * (sy % 100000)
    IN  ((hi + (lo \div 100000)) \div 10000) + 1

\* int(x * sx + y * sy) for sx, sy scaled by 10^9: truncation of the sum,
\* computed in limbs of 10^5 to stay within 32-bit integers.
Bound(x, sx, y, sy) ==
    LET hi == x * (sx \div 100000) + y * (sy \div 100000)
        lo == x * (sx % 100000) + y * (sy % 100000)
    IN  (hi + (lo \div 100000)) \div 10000

(***************************************************************************)
(* ImageProcessor (src/image_processor.py).                                *)
(*                                                                         *)
(* A handler returns the set of outcomes the call can have.  An outcome    *)
(* holds the updated image, thumbnail list, status list and command row    *)
(* (rotate rewrites cmd[1]), and the exception that escapes the handler    *)
(* ("none" when it returns).                                               *)
(***************************************************************************)
Outcome(im, th, er, cmd, raised) ==
    [img |-> im, thumbnail |-> th, errs |-> er, cmd |-> cmd, raised |-> raised]

\* Mutant of uuid_generator: the same name at every draw.
uuid_generator_Fixed(k) == "uuid"

\* uuid4 names: the k-th name drawn differs from every other one.
uuid_generator(k) == "uuid" \o ToString(k)

\* string_cmds.split("\n"), each row split on whitespace.
_cmds_to_list(string_cmds) ==
    LET rows == SplitOn(string_cmds, "\n")
    IN  [k \in 1..Len(rows) |-> SplitWs(rows[k])]

\* Mutant of _check_dimension: the bounds themselves refused.
_check_dimension_Strict(percent) ==
    percent >= MAXIMUM_PERCENT \/ percent <= MINIMUM_PERCENT

_check_dimension(percent) ==
    percent > MAXIMUM_PERCENT \/ percent < MINIMUM_PERCENT

_check_rotation_amt(rotation) ==
    rotation < MINIMUM_ROTATION \/ rotation > MAXIMUM_ROTATION

\* The scaling factor in hundredths: (percent / 100) + 1, 1 - abs(percent) / 100.
_convert_to_factor(percent) ==
    IF percent >= 0 THEN percent + 100 ELSE 100 - Abs(percent)

_flip_image(im, th, er, cmd) ==
    IF Len(cmd) < 2
    THEN {Outcome(im, th, er, cmd, "IndexError")}
    ELSE IF cmd[2] = HORIZONTAL
    THEN {Outcome(Cv2Flip(im, HORIZ_FLIP), th, er, cmd, "none")}
    ELSE IF cmd[2] = VERTICAL
    THEN {Outcome(Cv2Flip(im, VERT_FLIP), th, er, cmd, "none")}
    ELSE {Outcome(im, th, Append(er, <<ERROR_400, "invalid parameter. Usage: flip <horizontal/vertical>">>),
                  cmd, "none")}

\* Mutant of RotationOf: the normalised angle not negated.
RotationOf_NotNegated(degrees) ==
    IF degrees >= 0 THEN degrees % DEGREES_MODULO
    ELSE -1 * ((-1 * degrees) % DEGREES_MODULO)

\* degrees % 360 for degrees >= 0, else -((-degrees) % 360); then negated.
RotationOf(degrees) ==
    -1 * (IF degrees >= 0 THEN degrees % DEGREES_MODULO
          ELSE -1 * ((-1 * degrees) % DEGREES_MODULO))

\* Mutant of RotateExpand: the two bounds exchanged.
RotateExpand_Swapped(im, rotation) ==
    LET bound_w == Bound(im.h, AbsCos(rotation), im.w, AbsSin(rotation))
        bound_h == Bound(im.h, AbsSin(rotation), im.w, AbsCos(rotation))
    IN  Cv2WarpAffine(im, rotation, bound_w, bound_h)

\* The expanding rotation of lines 209-224.
RotateExpand(im, rotation) ==
    LET bound_w == Bound(im.h, AbsSin(rotation), im.w, AbsCos(rotation))
        bound_h == Bound(im.h, AbsCos(rotation), im.w, AbsSin(rotation))
    IN  Cv2WarpAffine(im, rotation, bound_w, bound_h)

_rotate_image(im, th, er, cmd) ==
    IF Len(cmd) < 2
    THEN {Outcome(im, th, er, cmd, "IndexError")}
    ELSE IF cmd[2] = LEFT
    THEN {Outcome(RotateExpand(im, LEFT_DEGREES), th, er, cmd, "none")}
    ELSE IF cmd[2] = RIGHT
    THEN {Outcome(RotateExpand(im, RIGHT_DEGREES), th, er, cmd, "none")}
    ELSE LET stripped == IF cmd[2][1] = "+" THEN Tail(cmd[2]) ELSE cmd[2]
             cmd2 == [cmd EXCEPT ![2] = stripped]
             degrees == PyInt(stripped)
         IN  IF ~degrees.ok
             THEN {Outcome(im, th, Append(er, <<ERROR_400, "is invalid rotation parameters. Only integers allowed">>),
                           cmd2, "none")}
             ELSE IF _check_rotation_amt(degrees.val)
             THEN {Outcome(im, th,
                           Append(er, <<ERROR_400,
                                        IF degrees.val < MINIMUM_ROTATION
                                        THEN "Rotation must be greater than -10001 degrees"
                                        ELSE "Rotation must be less than 10001 degrees">>),
                           cmd2, "none")}
             ELSE {Outcome(RotateExpand(im, RotationOf(degrees.val)), th, er, cmd2, "none")}

_greyscale_image(im, th, er, cmd) ==
    IF Cv2CvtColorRaises(im)
    THEN {Outcome(im, th, er, cmd, "cv2.error")}
    ELSE {Outcome(Cv2CvtColor(im), th, er, cmd, "none")}

_resize_image(im, th, er, cmd) ==
    IF Len(cmd) < 2
    THEN {Outcome(im, th, Append(er, <<ERROR_400, "list index out of range">>), cmd, "none")}
    ELSE LET percent_change == PyInt(cmd[2])
         IN  IF ~percent_change.ok
             THEN {Outcome(im, th, Append(er, <<ERROR_400, "invalid literal for int() with base 10">>),
                           cmd, "none")}
             ELSE IF _check_dimension(percent_change.val)
             THEN {Outcome(im, th,
                           Append(er, <<ERROR_400,
                                        IF percent_change.val > MAXIMUM_PERCENT
                                        THEN "Cannot resize/scale by more than 500%"
                                        ELSE "Cannot resize/scale by less than -95%">>),
                           cmd, "none")}
             ELSE LET factor == _convert_to_factor(percent_change.val)
                  IN  {IF sz[1] = 0 \/ sz[2] = 0
                       THEN Outcome(im, th, Append(er, <<ERROR_400, "cv2.error">>), cmd, "none")
                       ELSE Outcome(Cv2ResizeTo(im, sz[1], sz[2]), th, er, cmd, "none")
                       : sz \in Cv2ResizeSizes(im, factor)}

_thumbnail_image(im, th, er, cmd) ==
    {Outcome(im, Append(th, Cv2ResizeTo(im, THUMBNAIL_SIZE, THUMBNAIL_SIZE)), er, cmd, "none")}

_execute_cmd(im, th, er, cmd) ==
    IF Len(cmd) < 1
    THEN {Outcome(im, th, er, cmd, "IndexError")}
    ELSE IF cmd[1] = FLIP THEN _flip_image(im, th, er, cmd)
    ELSE IF cmd[1] = ROTATE THEN _rotate_image(im, th, er, cmd)
    ELSE IF cmd[1] = GREYSCALE THEN _greyscale_image(im, th, er, cmd)
    ELSE IF cmd[1] = RESIZE THEN _resize_image(im, th, er, cmd)
    ELSE IF cmd[1] = THUMBNAIL THEN _thumbnail_image(im, th, er, cmd)
    ELSE {Outcome(im, th, Append(er, <<ERROR_400, "invalid function">>), cmd, "none")}

(***************************************************************************)
(* Inputs of one call: the decoded upload and the client's command list    *)
(* (cmds of CmdParser), sent as "\n".join(cmds).                           *)
(***************************************************************************)
RECURSIVE NatToStr(_)
NatToStr(n) == IF n < 10 THEN <<Digits[n + 1]>>
               ELSE NatToStr(n \div 10) \o <<Digits[(n % 10) + 1]>>
IntToStr(n) == IF n < 0 THEN <<"-">> \o NatToStr(0 - n) ELSE NatToStr(n)

Line2(op, arg) == op \o <<" ">> \o arg

\* The command strings operation lists are built from.
ListLines ==
    { <<>>,
      FLIP,
      Line2(FLIP, VERTICAL),
      Line2(FLIP, <<"o","v","e","r">>),
      Line2(ROTATE, <<"+","4","0">>),
      Line2(ROTATE, <<"-","4","0">>),
      Line2(ROTATE, LEFT),
      Line2(ROTATE, <<"x">>),
      GREYSCALE,
      Line2(RESIZE, <<"1","0">>),
      Line2(RESIZE, <<"-","9","9">>),
      THUMBNAIL,
      <<"h","o","v","e","r">> }

RECURSIVE ListsUpTo(_, _)
ListsUpTo(S, n) ==
    IF n = 0 THEN {<<>>}
    ELSE LET shorter == ListsUpTo(S, n - 1)
         IN  shorter \cup {Append(l, x) : l \in {m \in shorter : Len(m) = n - 1}, x \in S}

ParamValues ==
    (-ParamSpan..ParamSpan)
    \cup {s * (MAXIMUM_ROTATION + k) : s \in {-1, 1}, k \in (-EdgeSpan)..EdgeSpan}

\* One-command lists over the whole parameter range, and malformed ones.
ParamLines ==
    {Line2(ROTATE, IntToStr(d)) : d \in ParamValues}
    \cup {Line2(ROTATE, <<"+">> \o IntToStr(d)) : d \in {v \in ParamValues : v >= 0}}
    \cup {Line2(RESIZE, IntToStr(p)) : p \in ParamValues}
    \cup {Line2(RESIZE, <<"+">> \o IntToStr(p)) : p \in {v \in ParamValues : v >= 0}}
    \cup { ROTATE, RESIZE,
           Line2(ROTATE, RIGHT),
           Line2(FLIP, HORIZONTAL),
           Line2(ROTATE, <<"+","-","4","0">>),
           Line2(ROTATE, <<"+","+","4","0">>),
           Line2(ROTATE, <<"4","_","0">>),
           Line2(ROTATE, <<"4",".","5">>),
           Line2(RESIZE, <<"1","0","%">>),
           Line2(RESIZE, <<"1","0">>) \o <<" ">>,
           <<"\t">> \o THUMBNAIL }

\* rotate d followed by rotate -d, over the whole parameter range.
RoundTripLists ==
    {<<Line2(ROTATE, IntToStr(d)), Line2(ROTATE, IntToStr(0 - d))>> : d \in ParamValues}

CmdLists ==
    ListsUpTo(ListLines, MaxOps) \cup {<<l>> : l \in ParamLines} \cup RoundTripLists

\* Shapes of the decoded upload.
Uploads == {<<3, 2>>, <<40, 30>>}


(***************************************************************************)
(* The reply stream: image_server.py (sender), cmd_parser.py (receiver).   *)
(***************************************************************************)
CHUNK_SIZE == 64 * 1024
NEW_FILE_INCOMING == "NEW_FILE_INCOMING"
EmptyName == "b''"              \* the initial name b"" as f"{...}" prints it

\* Bytes: a sequence of slices [f, lo, hi) of the content of file f.
Slice(f, lo, hi) == [f |-> f, lo |-> lo, hi |-> hi]
NoBytes == <<>>

\* Mutant of BytesCat: the chunk assigned instead of appended ("=" for "+=").
BytesCat_Assign(a, b) == b

\* a + b on bytes; adjoining slices of one file are one slice.
BytesCat(a, b) ==
    IF a = <<>> THEN b
    ELSE IF b = <<>> THEN a
    ELSE LET x == a[Len(a)]
             y == b[1]
         IN  IF x.f = y.f /\ x.hi = y.lo
             THEN SubSeq(a, 1, Len(a) - 1) \o <<Slice(x.f, x.lo, y.hi)>> \o Tail(b)
             ELSE a \o b

\* The whole content of a file of the given length.
Content(f, len) == IF len = 0 THEN NoBytes ELSE <<Slice(f, 0, len)>>

Min(a, b) == IF a < b THEN a ELSE b

\* Mutant of ReadChunk: a full chunk whatever is left of the file.
ReadChunk_Padded(f, len, off) ==
    IF off >= len THEN NoBytes ELSE <<Slice(f, off, off + CHUNK_SIZE)>>

\* f.read(CHUNK_SIZE) at offset off of a file of length len.
ReadChunk(f, len, off) ==
    IF off >= len THEN NoBytes ELSE <<Slice(f, off, Min(off + CHUNK_SIZE, len))>>

ImageReturn(type, chunk, filename, num, errors) ==
    [image_type |-> type, img_chunk_data |-> chunk, filename |-> filename,
     file_num |-> num, errors |-> errors]

\* error_string: "<code>, <message>\n" per entry; a message is one lexeme.
RECURSIVE error_string(_)
error_string(es) ==
    IF es = <<>> THEN <<>>
    ELSE IntToStr(es[1][1]) \o <<",", " ", es[1][2], "\n">> \o error_string(Tail(es))

\* Mutant of convert_to_list: the empty last line is kept.
convert_to_list_KeepLast(str_err) ==
    IF str_err = <<>> THEN <<>>
    ELSE SplitOn(str_err, "\n")

\* convert_to_list: the lines of the status text, without the last empty one.
convert_to_list(str_err) ==
    IF str_err = <<>> THEN <<>>
    ELSE LET error_list == SplitOn(str_err, "\n")
             err_num == Len(error_list)
         IN  IF error_list[err_num] = <<>>
             THEN SubSeq(error_list, 1, err_num - 1)
             ELSE error_list
VARIABLES
    \* ImageProcessor, one call of process_image
    string_cmds,        \* the operation text of the call
    cmds,               \* ImageProcessor._cmds
    img,                \* updated_imgs['img']
    thumbnail,          \* updated_imgs['thumbnail']
    errs,               \* errs
    ci,                 \* index of the next command of the loop (1-based)
    pc,                 \* "loop", "done", or "raised": an exception left process_image
    raised,             \* the exception that left process_image
    hist,               \* history: each command executed so far, the state before and after it
    proc_new_img,       \* ImageProcessor._new_img
    proc_new_thumbnail, \* ImageProcessor._new_thumbnail
    written,            \* the files cv2.imwrite wrote: name and image
    \* transmit_img, one call
    t_img,              \* argument img: the primary artifact's file name
    t_thumbnails,       \* argument thumbnails: the secondary artifacts' file names
    t_errs,             \* argument errs
    t_type,             \* argument type
    filelen,            \* the length of each artifact file (never changes)
    disk,               \* the artifact files that exist
    spos,               \* where the generator is suspended: [at, ti, off]
    wire,               \* every frame yielded so far, in order
    \* the receiver loop of CmdParser.process_image
    rcv,                \* number of frames of wire consumed
    new_img,
    new_img_name,
    error_msg,
    encountered_thumbnail,
    new_thumbnail,
    new_thumbnail_name,
    file_num,
    rpc,                \* "recv", "done" (returned from the else branch), "failed"
    response_dict,
    client_writes,      \* the files the client wrote, in order: name and bytes
    \* the upload: CmdParser._transmit_img and the loop of ProcessImage
    c_src,              \* self.src of the client: [exists, type, len]
    c_tpos,             \* where _transmit_img is suspended: [at, off]
    requests,           \* every ImageRequest yielded so far, in order
    s_pc,               \* ProcessImage: "idle", "recv", "stream", "aborted"
    s_i,                \* i: number of requests consumed
    img_binary,
    s_ops,              \* ops
    s_img_type,         \* img_type
    temp_filename,
    \* concurrent calls on the shared servicer
    calls,              \* the locals of each running call of ProcessImage
    fs,                 \* the working directory of the server: file name -> content
    drawn               \* number of uuid4 names drawn so far

pvars == <<string_cmds, cmds, img, thumbnail, errs, ci, pc, raised, hist,
           proc_new_img, proc_new_thumbnail, written>>

svars == <<t_img, t_thumbnails, t_errs, t_type, filelen, disk, spos, wire>>

rvars == <<rcv, new_img, new_img_name, error_msg, encountered_thumbnail,
           new_thumbnail, new_thumbnail_name, file_num, rpc, response_dict,
           client_writes>>

uvars == <<c_src, c_tpos, requests, s_pc, s_i, img_binary, s_ops, s_img_type,
           temp_filename>>

cvars == <<calls, fs, drawn>>

vars == <<pvars, svars, rvars, uvars, cvars>>

\* The locals of CmdParser.process_image before the loop (lines 55-66).
RecvInit ==
    /\ rcv = 0
    /\ new_img = NoBytes
    /\ new_img_name = EmptyName
    /\ error_msg = [kind |-> "bytes", s |-> <<>>]
    /\ encountered_thumbnail = FALSE
    /\ new_thumbnail = <<>>
    /\ new_thumbnail_name = <<>>
    /\ file_num = 0
    /\ response_dict = [img |-> "", thumbnail |-> <<>>, responses |-> <<>>]
    /\ client_writes = <<>>

\* No upload in progress: the locals of ProcessImage as lines 38-42 set them.
NoUpload ==
    /\ c_src = [exists |-> TRUE, type |-> "png", len |-> 0]
    /\ c_tpos = [at |-> "end", off |-> 0]
    /\ requests = <<>>
    /\ s_pc = "idle"
    /\ s_i = 0
    /\ img_binary = NoBytes
    /\ s_ops = <<>>
    /\ s_img_type = ""
    /\ temp_filename = "None"

\* No concurrent calls.
NoCalls == calls = <<>> /\ fs = <<>> /\ drawn = 0

\* No reply stream: the pipeline alone.
NoStream ==
    /\ t_img = "None" /\ t_thumbnails = <<>> /\ t_errs = <<>> /\ t_type = ""
    /\ filelen = <<>> /\ disk = {} /\ wire = <<>>
    /\ spos = [at |-> "end", ti |-> 0, off |-> 0]
    /\ rpc = "idle"
    /\ RecvInit
    /\ NoUpload
    /\ NoCalls

\* ImageProcessor.__init__ and the first lines of process_image.
Init ==
    /\ \E l \in CmdLists : string_cmds = Join(l, "\n")
    /\ cmds = _cmds_to_list(string_cmds)
    /\ \E u \in Uploads : img = Cv2Imread(u[1], u[2])
    /\ thumbnail = <<>>
    /\ errs = <<>>
    /\ ci = 1
    /\ pc = "loop"
    /\ raised = "none"
    /\ hist = <<>>
    /\ proc_new_img = "None"
    /\ proc_new_thumbnail = <<>>
    /\ written = <<>>
    /\ NoStream

\* One iteration of the loop of process_image (lines 105-106).
ExecuteCmd ==
    /\ pc = "loop"
    /\ ci <= Len(cmds)
    /\ \E o \in _execute_cmd(img, thumbnail, errs, cmds[ci]) :
          /\ hist' = Append(hist, [cmd |-> cmds[ci], img |-> img, thumbnail |-> thumbnail,
                                   errs |-> errs, img2 |-> o.img, thumbnail2 |-> o.thumbnail,
                                   errs2 |-> o.errs, raised |-> o.raised])
          /\ cmds' = [cmds EXCEPT ![ci] = o.cmd]
          /\ img' = o.img
          /\ thumbnail' = o.thumbnail
          /\ errs' = o.errs
          /\ raised' = o.raised
          /\ IF o.raised = "none"
             THEN pc' = "loop" /\ ci' = ci + 1
             ELSE pc' = "raised" /\ ci' = ci
    /\ UNCHANGED <<string_cmds, proc_new_img, proc_new_thumbnail, written>>
    /\ UNCHANGED <<svars, rvars, uvars, cvars>>

\* Mutant of Finish: the success entry appended whatever the list holds.
Finish_AlwaysSuccess ==
    /\ pc = "loop"
    /\ ci > Len(cmds)
    /\ errs' = Append(errs, <<SUCCESS_200, "Sucessfully processed image">>)
    /\ proc_new_img' = uuid_generator(1)
    /\ proc_new_thumbnail' = [k \in 1..Len(thumbnail) |-> uuid_generator(1 + k)]
    /\ written' = <<[name |-> uuid_generator(1), image |-> img]>>
                  \o [k \in 1..Len(thumbnail) |->
                        [name |-> uuid_generator(1 + k), image |-> thumbnail[k]]]
    /\ pc' = "done"
    /\ UNCHANGED <<string_cmds, cmds, img, thumbnail, ci, raised, hist>>
    /\ UNCHANGED <<svars, rvars, uvars, cvars>>

\* The end of process_image (lines 108-126): the success entry, the files.
Finish ==
    /\ pc = "loop"
    /\ ci > Len(cmds)
    /\ errs' = IF Len(errs) = 0
               THEN Append(errs, <<SUCCESS_200, "Sucessfully processed image">>)
               ELSE errs
    /\ proc_new_img' = uuid_generator(1)
    /\ proc_new_thumbnail' = [k \in 1..Len(thumbnail) |-> uuid_generator(1 + k)]
    /\ written' = <<[name |-> uuid_generator(1), image |-> img]>>
                  \o [k \in 1..Len(thumbnail) |->
                        [name |-> uuid_generator(1 + k), image |-> thumbnail[k]]]
    /\ pc' = "done"
    /\ UNCHANGED <<string_cmds, cmds, img, thumbnail, ci, raised, hist>>
    /\ UNCHANGED <<svars, rvars, uvars, cvars>>

Next == ExecuteCmd \/ Finish

Spec == Init /\ [][Next]_vars

(***************************************************************************)
(* The reply stream of one call: transmit_img yields frames, the transport *)
(* delivers them in order, the client's loop consumes them.                *)
(***************************************************************************)
\* Lengths of an encoded artifact: cv2.imwrite never writes an empty file.
FileSizes == {k * CHUNK_SIZE + d : k \in 0..MaxChunks, d \in {0, 1}} \ {0}

\* Status lists process_image returns.
StatusLists ==
    { <<<<SUCCESS_200, "Sucessfully processed image">>>>,
      <<<<ERROR_400, "invalid function">>, <<ERROR_400, "Cannot resize/scale by less than -95%">>>> }

NoPipeline ==
    /\ string_cmds = <<>> /\ cmds = <<>> /\ img = Cv2Imread(1, 1)
    /\ thumbnail = <<>> /\ errs = <<>> /\ ci = 1 /\ pc = "done"
    /\ raised = "none" /\ hist = <<>> /\ proc_new_img = "None"
    /\ proc_new_thumbnail = <<>> /\ written = <<>>

\* ProcessImage line 63: transmit_img(img, thumbs, errs, type) on the files
\* process_image wrote, and the client about to read the reply.
InitStream ==
    /\ NoPipeline
    /\ t_img = uuid_generator(1)
    /\ \E n \in 0..MaxThumbs : t_thumbnails = [k \in 1..n |-> uuid_generator(1 + k)]
    /\ t_errs \in StatusLists
    /\ t_type = "png"
    /\ disk = {t_img} \cup {t_thumbnails[k] : k \in 1..Len(t_thumbnails)}
    /\ filelen \in [disk -> FileSizes]
    /\ spos = [at |-> "start", ti |-> 0, off |-> 0]
    /\ wire = <<>>
    /\ rpc = "recv"
    /\ RecvInit
    /\ NoUpload
    /\ NoCalls

err_msg == error_string(t_errs)

CanSend == Len(wire) - rcv < MaxInFlight

\* Mutant of DataFrame: the status text left out of data frames.
DataFrame_NoStatus(name, num, off) ==
    [image_type |-> t_type, img_chunk_data |-> ReadChunk(name, filelen[name], off),
     filename |-> name, file_num |-> num, errors |-> <<>>]

\* Mutant of ControlFrame: file_num = 0 on every control frame.
ControlFrame_SlotZero(num) ==
    [image_type |-> "", img_chunk_data |-> <<>>, filename |-> "NEW_FILE_INCOMING",
     file_num |-> 0, errors |-> error_string(t_errs)]

\* The data frame of lines 82-88 / 113-119 and the control frame of lines 96-101 / 125-130.
DataFrame(name, num, off) ==
    ImageReturn(t_type, ReadChunk(name, filelen[name], off), name, num, err_msg)
ControlFrame(num) ==
    ImageReturn("", NoBytes, NEW_FILE_INCOMING, num, err_msg)

\* Lines 77-88: the next chunk of the primary artifact.
SendPrimaryData ==
    /\ spos.at \in {"start", "data0"}
    /\ CanSend
    /\ spos.off < filelen[t_img]
    /\ wire' = Append(wire, DataFrame(t_img, 0, spos.off))
    /\ spos' = [at |-> "data0", ti |-> 0, off |-> Min(spos.off + CHUNK_SIZE, filelen[t_img])]
    /\ UNCHANGED <<t_img, t_thumbnails, t_errs, t_type, filelen, disk>>
    /\ UNCHANGED <<pvars, rvars, uvars, cvars>>

\* Lines 78-102: end of the primary file; it is deleted, the control frame yielded.
SendPrimaryEnd ==
    /\ spos.at \in {"start", "data0"}
    /\ CanSend
    /\ spos.off >= filelen[t_img]
    /\ disk' = disk \ {t_img}
    /\ wire' = Append(wire, ControlFrame(0))
    /\ spos' = [at |-> "ctl0", ti |-> 0, off |-> 0]
    /\ UNCHANGED <<t_img, t_thumbnails, t_errs, t_type, filelen>>
    /\ UNCHANGED <<pvars, rvars, uvars, cvars>>

\* The thumbnail (1-based) and offset the generator reads next when resumed,
\* and the file it removes on the way there (line 134, after a control frame).
ThumbCursor ==
    IF spos.at = "ctl0" THEN [ti |-> 1, off |-> 0, rm |-> {}]
    ELSE IF spos.at = "ctlT" THEN [ti |-> spos.ti + 1, off |-> 0, rm |-> {t_thumbnails[spos.ti]}]
    ELSE [ti |-> spos.ti, off |-> spos.off, rm |-> {}]

InThumbs ==
    \/ spos.at = "ctl0" /\ Len(t_thumbnails) # 0
    \/ spos.at \in {"dataT", "ctlT"}

\* Mutant of SendThumbData: file_num = i + 1 on the data frames of thumbnail i.
SendThumbData_SlotOneBased ==
    /\ InThumbs
    /\ CanSend
    /\ LET c == ThumbCursor
           name == t_thumbnails[c.ti]
       IN  /\ c.off < filelen[name]
           /\ wire' = Append(wire, DataFrame(name, c.ti, c.off))
           /\ spos' = [at |-> "dataT", ti |-> c.ti, off |-> Min(c.off + CHUNK_SIZE, filelen[name])]
           /\ disk' = disk \ c.rm
    /\ UNCHANGED <<t_img, t_thumbnails, t_errs, t_type, filelen>>
    /\ UNCHANGED <<pvars, rvars, uvars, cvars>>

\* Lines 109-119: the next chunk of thumbnail i = ti - 1.
SendThumbData ==
    /\ InThumbs
    /\ CanSend
    /\ LET c == ThumbCursor
           name == t_thumbnails[c.ti]
       IN  /\ c.off < filelen[name]
           /\ wire' = Append(wire, DataFrame(name, c.ti - 1, c.off))
           /\ spos' = [at |-> "dataT", ti |-> c.ti, off |-> Min(c.off + CHUNK_SIZE, filelen[name])]
           /\ disk' = disk \ c.rm
    /\ UNCHANGED <<t_img, t_thumbnails, t_errs, t_type, filelen>>
    /\ UNCHANGED <<pvars, rvars, uvars, cvars>>

\* Lines 124-131: end of thumbnail i, more to come: the control frame i + 1.
SendThumbControl ==
    /\ InThumbs
    /\ CanSend
    /\ LET c == ThumbCursor
       IN  /\ c.off >= filelen[t_thumbnails[c.ti]]
           /\ c.ti - 1 < Len(t_thumbnails) - 1
           /\ wire' = Append(wire, ControlFrame((c.ti - 1) + 1))
           /\ spos' = [at |-> "ctlT", ti |-> c.ti, off |-> 0]
           /\ disk' = disk \ c.rm
    /\ UNCHANGED <<t_img, t_thumbnails, t_errs, t_type, filelen>>
    /\ UNCHANGED <<pvars, rvars, uvars, cvars>>

\* The generator returns: no thumbnails (line 105), or the end of the last
\* one, which is deleted (line 134).
SendReturn ==
    /\ \/ /\ spos.at = "ctl0" /\ Len(t_thumbnails) = 0
          /\ disk' = disk
       \/ /\ InThumbs
          /\ LET c == ThumbCursor
             IN  /\ c.off >= filelen[t_thumbnails[c.ti]]
                 /\ ~(c.ti - 1 < Len(t_thumbnails) - 1)
                 /\ disk' = disk \ (c.rm \cup {t_thumbnails[c.ti]})
    /\ spos' = [at |-> "end", ti |-> 0, off |-> 0]
    /\ UNCHANGED <<t_img, t_thumbnails, t_errs, t_type, filelen, wire>>
    /\ UNCHANGED <<pvars, rvars, uvars, cvars>>

\* The 1-based position list[n] names in a list of length len: Python counts
\* a negative index from the end.
PyIndex(n, len) == IF n >= 0 THEN n + 1 ELSE len + n + 1

\* Mutant of RecvFrame: a data frame of slot 0 always goes to the primary buffer.
RecvFrame_SlotZeroIsPrimary ==
    /\ rpc = "recv"
    /\ rcv < Len(wire)
    /\ LET process == wire[rcv + 1]
       IN  /\ rcv' = rcv + 1
           /\ error_msg' = [kind |-> "str", s |-> process.errors]
           /\ file_num' = process.file_num
           /\ IF process.filename = NEW_FILE_INCOMING
              THEN \* lines 84-94: a new secondary slot
                   /\ encountered_thumbnail' = TRUE
                   /\ new_thumbnail' = Append(new_thumbnail, NoBytes)
                   /\ new_thumbnail_name' = Append(new_thumbnail_name, EmptyName)
                   /\ UNCHANGED <<new_img, new_img_name, rpc, response_dict>>
              ELSE IF ~encountered_thumbnail \/ process.file_num = 0
              THEN \* lines 97-99
                   /\ new_img_name' = process.filename
                   /\ new_img' = BytesCat(new_img, process.img_chunk_data)
                   /\ UNCHANGED <<encountered_thumbnail, new_thumbnail,
                                  new_thumbnail_name, rpc, response_dict>>
              ELSE IF PyIndex(process.file_num, Len(new_thumbnail_name)) \in 1..Len(new_thumbnail_name)
              THEN \* lines 101-102
                   /\ new_thumbnail_name' =
                          [new_thumbnail_name EXCEPT ![PyIndex(process.file_num, Len(new_thumbnail_name))] = process.filename]
                   /\ new_thumbnail' =
                          [new_thumbnail EXCEPT ![PyIndex(process.file_num, Len(new_thumbnail_name))] =
                               BytesCat(@, process.img_chunk_data)]
                   /\ UNCHANGED <<new_img, new_img_name, encountered_thumbnail,
                                  rpc, response_dict>>
              ELSE \* IndexError, caught at line 108
                   /\ rpc' = "failed"
                   /\ response_dict' = [img |-> "None", thumbnail |-> "None",
                                        responses |-> "500, Unable to connect to server"]
                   /\ UNCHANGED <<new_img, new_img_name, encountered_thumbnail,
                                  new_thumbnail, new_thumbnail_name>>
    /\ UNCHANGED client_writes
    /\ UNCHANGED <<pvars, svars, uvars, cvars>>

\* One iteration of the loop of lines 78-102 on the next frame.
RecvFrame ==
    /\ rpc = "recv"
    /\ rcv < Len(wire)
    /\ LET process == wire[rcv + 1]
       IN  /\ rcv' = rcv + 1
           /\ error_msg' = [kind |-> "str", s |-> process.errors]
           /\ file_num' = process.file_num
           /\ IF process.filename = NEW_FILE_INCOMING
              THEN \* lines 84-94: a new secondary slot
                   /\ encountered_thumbnail' = TRUE
                   /\ new_thumbnail' = Append(new_thumbnail, NoBytes)
                   /\ new_thumbnail_name' = Append(new_thumbnail_name, EmptyName)
                   /\ UNCHANGED <<new_img, new_img_name, rpc, response_dict>>
              ELSE IF ~encountered_thumbnail
              THEN \* lines 97-99
                   /\ new_img_name' = process.filename
                   /\ new_img' = BytesCat(new_img, process.img_chunk_data)
                   /\ UNCHANGED <<encountered_thumbnail, new_thumbnail,
                                  new_thumbnail_name, rpc, response_dict>>
              ELSE IF PyIndex(process.file_num, Len(new_thumbnail_name)) \in 1..Len(new_thumbnail_name)
              THEN \* lines 101-102
                   /\ new_thumbnail_name' =
                          [new_thumbnail_name EXCEPT ![PyIndex(process.file_num, Len(new_thumbnail_name))] = process.filename]
                   /\ new_thumbnail' =
                          [new_thumbnail EXCEPT ![PyIndex(process.file_num, Len(new_thumbnail_name))] =
                               BytesCat(@, process.img_chunk_data)]
                   /\ UNCHANGED <<new_img, new_img_name, encountered_thumbnail,
                                  rpc, response_dict>>
              ELSE \* IndexError, caught at line 108
                   /\ rpc' = "failed"
                   /\ response_dict' = [img |-> "None", thumbnail |-> "None",
                                        responses |-> "500, Unable to connect to server"]
                   /\ UNCHANGED <<new_img, new_img_name, encountered_thumbnail,
                                  new_thumbnail, new_thumbnail_name>>
    /\ UNCHANGED client_writes
    /\ UNCHANGED <<pvars, svars, uvars, cvars>>

\* End of stream: the else branch of lines 114-131.
RecvEnd ==
    /\ rpc = "recv"
    /\ rcv = Len(wire)
    /\ spos.at = "end"
    /\ IF error_msg.kind = "bytes"
       THEN \* convert_to_list(b""): b"".split("\n") raises TypeError
            /\ rpc' = "raised"
            /\ UNCHANGED <<response_dict, client_writes>>
       ELSE /\ rpc' = "done"
            /\ response_dict' =
                  [img |-> "client_" \o new_img_name,
                   thumbnail |-> [k \in 1..Len(new_thumbnail_name) |->
                                      "client_" \o new_thumbnail_name[k]],
                   responses |-> convert_to_list(error_msg.s)]
            /\ client_writes' =
                  <<[name |-> "client_" \o new_img_name, data |-> new_img]>>
                  \o [k \in 1..Len(new_thumbnail_name) |->
                        [name |-> "client_" \o new_thumbnail_name[k],
                         data |-> new_thumbnail[k]]]
    /\ UNCHANGED <<rcv, new_img, new_img_name, error_msg, encountered_thumbnail,
                   new_thumbnail, new_thumbnail_name, file_num>>
    /\ UNCHANGED <<pvars, svars, uvars, cvars>>

NextStream ==
    \/ SendPrimaryData
    \/ SendPrimaryEnd
    \/ SendThumbData
    \/ SendThumbControl
    \/ SendReturn
    \/ RecvFrame
    \/ RecvEnd

SpecStream == InitStream /\ [][NextStream]_vars

(***************************************************************************)
(* The receiver loop alone, on any frame sequence a peer may send.         *)
(***************************************************************************)

\* Status texts carried by the frames.
StatusTexts == {error_string(es) : es \in StatusLists}

\* Frames by name, slot and status; the chunk of the j-th frame of a
\* sequence is byte j of the stream, so that every byte received is told
\* from every other one.
FrameKinds ==
    {[filename |-> fn, file_num |-> num, errors |-> e] :
        fn \in {"a", "b"}, num \in {-1, 0, 1}, e \in StatusTexts}
    \cup {[filename |-> NEW_FILE_INCOMING, file_num |-> num, errors |-> e] :
            num \in {0, 1}, e \in StatusTexts}
FrameAt(kind, j) ==
    ImageReturn(IF kind.filename = NEW_FILE_INCOMING THEN "" ELSE "png",
                IF kind.filename = NEW_FILE_INCOMING THEN NoBytes
                ELSE <<Slice("stream", j - 1, j)>>,
                kind.filename, kind.file_num, kind.errors)

InitRecv ==
    /\ NoPipeline
    /\ t_img = "None" /\ t_thumbnails = <<>> /\ t_errs = <<>> /\ t_type = ""
    /\ filelen = <<>> /\ disk = {}
    /\ spos = [at |-> "end", ti |-> 0, off |-> 0]
    /\ \E n \in 0..MaxFrames :
          \E kinds \in [1..n -> FrameKinds] :
              wire = [j \in 1..n |-> FrameAt(kinds[j], j)]
    /\ rpc = "recv"
    /\ RecvInit
    /\ NoUpload
    /\ NoCalls

NextRecv == RecvFrame \/ RecvEnd

SpecRecv == InitRecv /\ [][NextRecv]_vars

(***************************************************************************)
(* The status list alone: error_string on the server, the status text on   *)
(* a frame, convert_to_list on the client.                                 *)
(***************************************************************************)
MaxStatus == 3

\* Entries process_image appends to the status list (newline-free messages).
StatusEntries ==
    { <<SUCCESS_200, "Sucessfully processed image">>,
      <<ERROR_400, "invalid function">>,
      <<ERROR_400, "list index out of range">>,
      <<ERROR_400, "Cannot resize/scale by less than -95%">> }

StatusListsUpTo(n) == UNION {[1..k -> StatusEntries] : k \in 0..n}

InitStatus ==
    /\ NoPipeline
    /\ t_img = "None" /\ t_thumbnails = <<>> /\ t_type = ""
    /\ t_errs \in StatusListsUpTo(MaxStatus)
    /\ filelen = <<>> /\ disk = {}
    /\ spos = [at |-> "idle", ti |-> 0, off |-> 0]
    /\ wire = <<>>
    /\ rpc = "serialize"
    /\ RecvInit
    /\ NoUpload
    /\ NoCalls

\* transmit_img line 74 builds the status text; the client's loop keeps the
\* text of the frame it read (cmd_parser.py line 79).
SerializeStatus ==
    /\ rpc = "serialize"
    /\ error_msg' = [kind |-> "str", s |-> error_string(t_errs)]
    /\ rpc' = "received"
    /\ UNCHANGED <<rcv, new_img, new_img_name, encountered_thumbnail, new_thumbnail,
                   new_thumbnail_name, file_num, response_dict, client_writes>>
    /\ UNCHANGED <<pvars, svars, uvars, cvars>>

\* process_image line 116: response_dict['responses'] = convert_to_list(error_msg).
ConvertStatus ==
    /\ rpc = "received"
    /\ response_dict' = [response_dict EXCEPT !.responses = convert_to_list(error_msg.s)]
    /\ rpc' = "done"
    /\ UNCHANGED <<rcv, new_img, new_img_name, error_msg, encountered_thumbnail,
                   new_thumbnail, new_thumbnail_name, file_num, client_writes>>
    /\ UNCHANGED <<pvars, svars, uvars, cvars>>

NextStatus == SerializeStatus \/ ConvertStatus

SpecStatus == InitStatus /\ [][NextStatus]_vars

(***************************************************************************)
(* One whole call: CmdParser.process_image uploads the source file in      *)
(* chunks, ProcessImage collects them, runs the pipeline and streams the   *)
(* reply with transmit_img.                                                *)
(***************************************************************************)
IMG_TYPES == {"jpg", "jpeg", "png", "tif"}

\* Lengths of the client's source file; the file may be empty.
SourceSizes == {k * CHUNK_SIZE + d : k \in 0..MaxUpChunks, d \in {0, 1}}

\* Lengths of the artifacts of a whole call: one full chunk, and a byte more.
ReplySizes == {CHUNK_SIZE, CHUNK_SIZE + 1}

\* self.src: the file may be missing, its extension unsupported or absent.
Sources ==
    {[exists |-> TRUE, type |-> "png", len |-> n] : n \in SourceSizes}
    \cup {[exists |-> FALSE, type |-> "png", len |-> 0],
          [exists |-> FALSE, type |-> "gif", len |-> 0],
          [exists |-> TRUE, type |-> "gif", len |-> 1],
          [exists |-> TRUE, type |-> "None", len |-> 1]}

\* self.cmds of the client of the call.
ClientCmds == <<GREYSCALE, THUMBNAIL>>

ImageRequest(image_ops, image_type, chunk) ==
    [image_ops |-> image_ops, image_type |-> image_type, chunk_data |-> chunk]

_is_supported_img == c_src.type \in IMG_TYPES

\* The client before line 69, the servicer waiting for a call.
InitCall ==
    /\ NoPipeline
    /\ c_src \in Sources
    /\ c_tpos = [at |-> "idle", off |-> 0]
    /\ requests = <<>>
    /\ s_pc = "idle"
    /\ s_i = 0
    /\ img_binary = NoBytes
    /\ s_ops = <<>>
    /\ s_img_type = ""
    /\ temp_filename = "None"
    /\ t_img = "None" /\ t_thumbnails = <<>> /\ t_errs = <<>> /\ t_type = ""
    /\ filelen = <<>> /\ disk = {} /\ wire = <<>>
    /\ spos = [at |-> "idle", ti |-> 0, off |-> 0]
    /\ rpc = "init"
    /\ RecvInit
    /\ NoCalls

\* cmd_parser.py lines 69-75 and 132-135, 103-107: the checks before the
\* call, and the call started on the generator _transmit_img().
ClientStart ==
    /\ rpc = "init"
    /\ IF ~_is_supported_img
       THEN /\ rpc' = "refused"
            /\ response_dict' = [response_dict EXCEPT
                                   !.responses = "400, invalid file type/missing extension"]
            /\ UNCHANGED <<c_tpos, s_pc>>
       ELSE IF ~c_src.exists
       THEN /\ rpc' = "failed"
            /\ response_dict' = [img |-> "None", thumbnail |-> "None",
                                 responses |-> "404, file does not exist"]
            /\ UNCHANGED <<c_tpos, s_pc>>
       ELSE /\ rpc' = "recv"
            /\ c_tpos' = [at |-> "start", off |-> 0]
            /\ s_pc' = "recv"
            /\ UNCHANGED response_dict
    /\ UNCHANGED <<c_src, requests, s_i, img_binary, s_ops, s_img_type, temp_filename>>
    /\ UNCHANGED <<rcv, new_img, new_img_name, error_msg, encountered_thumbnail,
                   new_thumbnail, new_thumbnail_name, file_num, client_writes>>
    /\ UNCHANGED <<pvars, svars, cvars>>

\* _transmit_img lines 155-163: the next chunk of the source file.
TransmitChunk ==
    /\ c_tpos.at \in {"start", "data"}
    /\ c_tpos.off < c_src.len
    /\ requests' = Append(requests,
                          ImageRequest(Join(ClientCmds, "\n"), c_src.type,
                                       ReadChunk("src", c_src.len, c_tpos.off)))
    /\ c_tpos' = [at |-> "data", off |-> Min(c_tpos.off + CHUNK_SIZE, c_src.len)]
    /\ UNCHANGED <<c_src, s_pc, s_i, img_binary, s_ops, s_img_type, temp_filename>>
    /\ UNCHANGED <<pvars, svars, rvars, cvars>>

\* _transmit_img line 156: f.read returns b'', the generator returns.
TransmitEnd ==
    /\ c_tpos.at \in {"start", "data"}
    /\ c_tpos.off >= c_src.len
    /\ c_tpos' = [at |-> "end", off |-> c_tpos.off]
    /\ UNCHANGED <<c_src, requests, s_pc, s_i, img_binary, s_ops, s_img_type, temp_filename>>
    /\ UNCHANGED <<pvars, svars, rvars, cvars>>

\* ProcessImage lines 43-47: one request of the iterator.
RecvRequest ==
    /\ s_pc = "recv"
    /\ s_i < Len(requests)
    /\ LET request == requests[s_i + 1]
       IN  /\ s_ops' = request.image_ops
           /\ s_img_type' = request.image_type
           /\ img_binary' = BytesCat(img_binary, request.chunk_data)
           /\ s_i' = s_i + 1
    /\ UNCHANGED <<c_src, c_tpos, requests, s_pc, temp_filename>>
    /\ UNCHANGED <<pvars, svars, rvars, cvars>>

\* ProcessImage lines 50-63, the request iterator exhausted: the upload is
\* written to a temporary file and processed.  Either process_image raises
\* (it always does on an empty upload) and the call aborts, or it returns
\* the artifacts it wrote, the temporary file is removed and transmit_img
\* is started.
ProcessUpload ==
    /\ s_pc = "recv"
    /\ s_i = Len(requests)
    /\ c_tpos.at = "end"
    /\ temp_filename' = uuid_generator(0) \o "." \o s_img_type
    /\ \/ /\ s_pc' = "aborted"
          /\ disk' = {temp_filename'}
          /\ UNCHANGED <<t_img, t_thumbnails, t_errs, t_type, filelen, spos>>
       \/ /\ img_binary # NoBytes
          /\ s_pc' = "stream"
          /\ t_img' = uuid_generator(1)
          /\ \E n \in 0..MaxThumbs : t_thumbnails' = [k \in 1..n |-> uuid_generator(1 + k)]
          /\ t_errs' \in StatusLists
          /\ t_type' = s_img_type
          /\ disk' = {t_img'} \cup {t_thumbnails'[k] : k \in 1..Len(t_thumbnails')}
          /\ filelen' \in [disk' -> ReplySizes]
          /\ spos' = [at |-> "start", ti |-> 0, off |-> 0]
    /\ UNCHANGED wire
    /\ UNCHANGED <<c_src, c_tpos, requests, s_i, img_binary, s_ops, s_img_type>>
    /\ UNCHANGED <<pvars, rvars, cvars>>

\* Mutant of RecvRpcError: the failure recorded, image and thumbnails not reset.
RecvRpcError_NotReset ==
    /\ rpc = "recv"
    /\ s_pc \in {"aborted", "recv", "stream"}
    /\ rpc' = "failed"
    /\ response_dict' = [response_dict EXCEPT
                           !.responses = "500, Unable to connect to server"]
    /\ UNCHANGED <<rcv, new_img, new_img_name, error_msg, encountered_thumbnail,
                   new_thumbnail, new_thumbnail_name, file_num, client_writes>>
    /\ UNCHANGED <<pvars, svars, uvars, cvars>>

\* cmd_parser.py lines 108-113: the iteration of the reply raises (the call
\* was aborted by the server, or the transport failed).
RecvRpcError ==
    /\ rpc = "recv"
    /\ \/ s_pc = "aborted"
       \/ s_pc \in {"recv", "stream"}
    /\ rpc' = "failed"
    /\ response_dict' = [img |-> "None", thumbnail |-> "None",
                         responses |-> "500, Unable to connect to server"]
    /\ UNCHANGED <<rcv, new_img, new_img_name, error_msg, encountered_thumbnail,
                   new_thumbnail, new_thumbnail_name, file_num, client_writes>>
    /\ UNCHANGED <<pvars, svars, uvars, cvars>>

NextCall ==
    \/ ClientStart
    \/ TransmitChunk
    \/ TransmitEnd
    \/ RecvRequest
    \/ ProcessUpload
    \/ RecvRpcError
    \/ SendPrimaryData
    \/ SendPrimaryEnd
    \/ SendThumbData
    \/ SendThumbControl
    \/ SendReturn
    \/ RecvFrame
    \/ RecvEnd

SpecCall == InitCall /\ [][NextCall]_vars

(***************************************************************************)
(* The request loop of ProcessImage alone, on any request sequence a       *)
(* client may send.                                                        *)
(***************************************************************************)
\* Requests by operation text and asset type; the chunk of the j-th request
\* is byte j of the upload.
RequestKinds ==
    {[image_ops |-> o, image_type |-> ty] :
        o \in {GREYSCALE, THUMBNAIL}, ty \in {"png", "jpg"}}
RequestAt(kind, j) ==
    ImageRequest(kind.image_ops, kind.image_type, <<Slice("src", j - 1, j)>>)

InitRequests ==
    /\ NoPipeline
    /\ \E n \in 0..MaxFrames :
          /\ c_src = [exists |-> TRUE, type |-> "png", len |-> n]
          /\ \E kinds \in [1..n -> RequestKinds] :
                requests = [j \in 1..n |-> RequestAt(kinds[j], j)]
    /\ c_tpos = [at |-> "end", off |-> c_src.len]
    /\ s_pc = "recv"
    /\ s_i = 0
    /\ img_binary = NoBytes
    /\ s_ops = <<>>
    /\ s_img_type = ""
    /\ temp_filename = "None"
    /\ t_img = "None" /\ t_thumbnails = <<>> /\ t_errs = <<>> /\ t_type = ""
    /\ filelen = <<>> /\ disk = {} /\ wire = <<>>
    /\ spos = [at |-> "idle", ti |-> 0, off |-> 0]
    /\ rpc = "recv"
    /\ RecvInit
    /\ NoCalls

NextRequests == RecvRequest \/ ProcessUpload

SpecRequests == InitRequests /\ [][NextRequests]_vars

(***************************************************************************)
(* Concurrent calls: serve() runs each call of ProcessImage on a worker of *)
(* the thread pool, on one shared servicer and one working directory.  A   *)
(* call is followed through its accesses to the directory: the upload it   *)
(* writes, the artifacts process_image writes, the files transmit_img      *)
(* reads and removes.  Every artifact is a single chunk here.              *)
(***************************************************************************)
Calls == {1, 2}
CallThumbs == {0, 2}

NoContent == [owner |-> 0, part |-> "none"]
PartName(k) == IF k = 0 THEN "img" ELSE "thumb" \o ToString(k)

FsWrite(f, name, content) ==
    [x \in (DOMAIN f) \cup {name} |-> IF x = name THEN content ELSE f[x]]
FsRemove(f, name) == [x \in (DOMAIN f) \ {name} |-> f[x]]

\* The locals of one call at its start (image_server.py lines 38-42) and of
\* its client (cmd_parser.py lines 55-66).
NewCall(n, es) ==
    [at |-> "recv", k |-> 0, n |-> n, errs |-> es,
     temp_filename |-> "None", decoded |-> NoContent,
     img |-> "None", thumbs |-> <<>>, wire |-> <<>>, touched |-> {},
     rcv |-> 0, new_img |-> <<>>, new_thumbnail |-> <<>>,
     encountered_thumbnail |-> FALSE, failed |-> FALSE]

\* The status list process_image returns in call c.
CallStatus(c) ==
    IF c = 1 THEN <<<<SUCCESS_200, "Sucessfully processed image">>>>
    ELSE <<<<ERROR_400, "invalid function">>>>

InitConcurrent ==
    /\ NoPipeline
    /\ t_img = "None" /\ t_thumbnails = <<>> /\ t_errs = <<>> /\ t_type = ""
    /\ filelen = <<>> /\ disk = {} /\ wire = <<>>
    /\ spos = [at |-> "end", ti |-> 0, off |-> 0]
    /\ rpc = "idle"
    /\ RecvInit
    /\ NoUpload
    /\ \E ns \in [Calls -> CallThumbs] :
          calls = [c \in Calls |-> NewCall(ns[c], CallStatus(c))]
    /\ fs = <<>>
    /\ drawn = 0

ArtifactName(call, k) == IF k = 0 THEN call.img ELSE call.thumbs[k]

\* ProcessImage lines 50-52: the upload written under a fresh name.
WriteUpload(c) ==
    /\ calls[c].at = "recv"
    /\ LET name == uuid_generator(drawn)
       IN  /\ fs' = FsWrite(fs, name, [owner |-> c, part |-> "upload"])
           /\ calls' = [calls EXCEPT ![c].temp_filename = name,
                                     ![c].touched = @ \cup {name},
                                     ![c].at = "imread"]
    /\ drawn' = drawn + 1
    /\ UNCHANGED <<pvars, svars, rvars, uvars>>

\* process_image line 100: cv2.imread(self._img), None if there is no file.
ReadUpload(c) ==
    /\ calls[c].at = "imread"
    /\ calls' = [calls EXCEPT
                   ![c].decoded = IF calls[c].temp_filename \in DOMAIN fs
                                  THEN fs[calls[c].temp_filename] ELSE NoContent,
                   ![c].touched = @ \cup {calls[c].temp_filename},
                   ![c].at = "imwrite"]
    /\ UNCHANGED <<fs, drawn>>
    /\ UNCHANGED <<pvars, svars, rvars, uvars>>

\* process_image lines 114-123: the next artifact written under a fresh
\* name; cv2.imwrite raises if imread gave nothing.
WriteArtifact(c) ==
    /\ calls[c].at = "imwrite"
    /\ IF calls[c].decoded = NoContent
       THEN /\ calls' = [calls EXCEPT ![c].at = "error"]
            /\ UNCHANGED <<fs, drawn>>
       ELSE LET name == uuid_generator(drawn)
                k == calls[c].k
            IN  /\ fs' = FsWrite(fs, name, [owner |-> calls[c].decoded.owner,
                                            part |-> PartName(k)])
                /\ drawn' = drawn + 1
                /\ calls' = [calls EXCEPT
                               ![c].img = IF k = 0 THEN name ELSE @,
                               ![c].thumbs = IF k = 0 THEN @ ELSE Append(@, name),
                               ![c].touched = @ \cup {name},
                               ![c].k = IF k < calls[c].n THEN k + 1 ELSE 0,
                               ![c].at = IF k < calls[c].n THEN "imwrite" ELSE "rmtemp"]
    /\ UNCHANGED <<pvars, svars, rvars, uvars>>

\* ProcessImage line 60: os.remove(temp_filename).
RemoveUpload(c) ==
    /\ calls[c].at = "rmtemp"
    /\ IF calls[c].temp_filename \in DOMAIN fs
       THEN /\ fs' = FsRemove(fs, calls[c].temp_filename)
            /\ calls' = [calls EXCEPT ![c].at = "data", ![c].k = 0]
       ELSE /\ fs' = fs
            /\ calls' = [calls EXCEPT ![c].at = "error"]
    /\ UNCHANGED drawn
    /\ UNCHANGED <<pvars, svars, rvars, uvars>>

\* transmit_img lines 77-88 and 109-119: the artifact read and yielded; if
\* it cannot be opened the exception is printed and no frame is yielded.
SendData(c) ==
    /\ calls[c].at = "data"
    /\ LET k == calls[c].k
           name == ArtifactName(calls[c], k)
       IN  calls' = [calls EXCEPT
                       ![c].wire = IF name \in DOMAIN fs
                                   THEN Append(@, [filename |-> name,
                                                   img_chunk_data |-> fs[name],
                                                   file_num |-> IF k = 0 THEN 0 ELSE k - 1,
                                                   errors |-> error_string(calls[c].errs)])
                                   ELSE @,
                       ![c].touched = @ \cup {name},
                       ![c].at = "ctl"]
    /\ UNCHANGED <<fs, drawn>>
    /\ UNCHANGED <<pvars, svars, rvars, uvars>>

\* transmit_img lines 93-102 (the primary file removed, control frame 0)
\* and 124-131 (control frame i + 1 if another thumbnail follows).
SendControl(c) ==
    /\ calls[c].at = "ctl"
    /\ LET k == calls[c].k
           ctl(num) == [filename |-> NEW_FILE_INCOMING, img_chunk_data |-> NoContent,
                        file_num |-> num, errors |-> error_string(calls[c].errs)]
       IN  IF k = 0
           THEN IF calls[c].img \in DOMAIN fs
                THEN /\ fs' = FsRemove(fs, calls[c].img)
                     /\ calls' = [calls EXCEPT
                                    ![c].wire = Append(@, ctl(0)),
                                    ![c].k = IF calls[c].n = 0 THEN 0 ELSE 1,
                                    ![c].at = IF calls[c].n = 0 THEN "done" ELSE "data"]
                ELSE /\ fs' = fs
                     /\ calls' = [calls EXCEPT ![c].at = "error"]
           ELSE /\ fs' = fs
                /\ calls' = [calls EXCEPT
                               ![c].wire = IF k < calls[c].n THEN Append(@, ctl(k)) ELSE @,
                               ![c].at = "rm"]
    /\ UNCHANGED drawn
    /\ UNCHANGED <<pvars, svars, rvars, uvars>>

\* transmit_img line 134: os.remove(thumbnails[i]).
RemoveThumbnail(c) ==
    /\ calls[c].at = "rm"
    /\ LET k == calls[c].k
       IN  IF calls[c].thumbs[k] \in DOMAIN fs
           THEN /\ fs' = FsRemove(fs, calls[c].thumbs[k])
                /\ calls' = [calls EXCEPT
                               ![c].k = IF k < calls[c].n THEN k + 1 ELSE k,
                               ![c].at = IF k < calls[c].n THEN "data" ELSE "done"]
           ELSE /\ fs' = fs
                /\ calls' = [calls EXCEPT ![c].at = "error"]
    /\ UNCHANGED drawn
    /\ UNCHANGED <<pvars, svars, rvars, uvars>>

\* cmd_parser.py lines 78-102 in the client of call c.
RecvOf(c) ==
    /\ calls[c].rcv < Len(calls[c].wire)
    /\ ~calls[c].failed
    /\ LET process == calls[c].wire[calls[c].rcv + 1]
       IN  calls' =
             IF process.filename = NEW_FILE_INCOMING
             THEN [calls EXCEPT ![c].rcv = @ + 1,
                                ![c].encountered_thumbnail = TRUE,
                                ![c].new_thumbnail = Append(@, <<>>)]
             ELSE IF ~calls[c].encountered_thumbnail
             THEN [calls EXCEPT ![c].rcv = @ + 1,
                                ![c].new_img = Append(@, process.img_chunk_data)]
             ELSE IF process.file_num + 1 \in 1..Len(calls[c].new_thumbnail)
             THEN [calls EXCEPT ![c].rcv = @ + 1,
                                ![c].new_thumbnail[process.file_num + 1] =
                                    Append(@, process.img_chunk_data)]
             ELSE [calls EXCEPT ![c].rcv = @ + 1, ![c].failed = TRUE]
    /\ UNCHANGED <<fs, drawn>>
    /\ UNCHANGED <<pvars, svars, rvars, uvars>>

NextConcurrent ==
    \/ \E c \in Calls : WriteUpload(c)
    \/ \E c \in Calls : ReadUpload(c)
    \/ \E c \in Calls : WriteArtifact(c)
    \/ \E c \in Calls : RemoveUpload(c)
    \/ \E c \in Calls : SendData(c)
    \/ \E c \in Calls : SendControl(c)
    \/ \E c \in Calls : RemoveThumbnail(c)
    \/ \E c \in Calls : RecvOf(c)

SpecConcurrent == InitConcurrent /\ [][NextConcurrent]_vars

(***************************************************************************)
(* Claims about the transform pipeline (checked under Spec).               *)
(*                                                                         *)
(* hist[k] is the k-th command executed: the row as the loop passed it     *)
(* (cmd), the state before it (img, thumbnail, errs), the state after it   *)
(* (img2, thumbnail2, errs2) and the exception that escaped it (raised).   *)
(***************************************************************************)
Tags == {FLIP, ROTATE, GREYSCALE, RESIZE, THUMBNAIL}

IsPrefixOf(a, b) == Len(a) <= Len(b) /\ a = SubSeq(b, 1, Len(a))

\* er2 is er with exactly one entry appended, of code 400.
AppendsOne400(er, er2) ==
    /\ Len(er2) = Len(er) + 1
    /\ IsPrefixOf(er, er2)
    /\ er2[Len(er2)][1] = 400

\* A decimal integer as the specification writes it: an optional sign and
\* digits.  [ok |-> FALSE] when the token is not one.
RECURSIVE DecimalValue(_)
DecimalValue(t) ==
    IF t = <<>> THEN 0
    ELSE LET c == t[Len(t)]
             d == CHOOSE v \in 0..9 : Digits[v + 1] = c
         IN  10 * DecimalValue(SubSeq(t, 1, Len(t) - 1)) + d
SpecInt(t) ==
    LET signed == t # <<>> /\ t[1] \in {"+", "-"}
        ds == IF signed THEN Tail(t) ELSE t
    IN  IF ds = <<>> \/ \E k \in 1..Len(ds) : ~IsDigit(ds[k])
        THEN [ok |-> FALSE, val |-> 0]
        ELSE [ok |-> TRUE,
              val |-> IF t[1] = "-" THEN 0 - DecimalValue(ds) ELSE DecimalValue(ds)]

\* The command did not change images or thumbnails: it failed.
Failed(e) == e.img2 = e.img /\ e.thumbnail2 = e.thumbnail

\* C4: a failed operation never aborts the pipeline.  For every operation
\* list whose rows all carry a tag (arguments may be missing or malformed),
\* process_image runs to completion having executed every row in order, and
\* a failed operation leaves the state to the next one as it found it.
C4_NeverAborts ==
    (\A k \in 1..Len(cmds) : cmds[k] # <<>>) =>
        /\ pc # "raised"
        /\ (pc = "done" => Len(hist) = Len(cmds))
        /\ \A k \in 1..Len(hist) :
              /\ hist[k].cmd[1] = cmds[k][1]
              /\ (hist[k].errs2 # hist[k].errs => Failed(hist[k]))
              /\ (k < Len(hist) =>
                     /\ hist[k + 1].img = hist[k].img2
                     /\ hist[k + 1].thumbnail = hist[k].thumbnail2)

\* C5: a row with zero tokens (a blank line, or an empty operation text) is
\* an unknown operation: it appends one 400 status entry, leaves the primary
\* image and the thumbnail list unchanged, and does not crash the run.
C5_BlankRow ==
    \A k \in 1..Len(hist) :
        hist[k].cmd = <<>> =>
            /\ hist[k].raised = "none"
            /\ AppendsOne400(hist[k].errs, hist[k].errs2)
            /\ Failed(hist[k])

FailedOps == {k \in 1..Len(hist) : Failed(hist[k])}

\* C6: at pipeline completion the status list is never empty and never
\* mixes codes: exactly one entry, of code 200, if and only if no operation
\* failed; otherwise one 400 entry per failed operation, in operation order,
\* and no 200 entry.
C6_StatusList ==
    pc = "done" =>
        /\ errs # <<>>
        /\ (FailedOps = {} <=> \E j \in 1..Len(errs) : errs[j][1] = 200)
        /\ (FailedOps = {} => Len(errs) = 1 /\ errs[1][1] = 200)
        /\ (FailedOps # {} =>
               /\ Len(errs) = Cardinality(FailedOps)
               /\ \A j \in 1..Len(errs) : errs[j][1] = 400
               /\ \A k \in FailedOps :
                     LET j == Cardinality({f \in FailedOps : f <= k})
                     IN  /\ hist[k].errs = SubSeq(errs, 1, j - 1)
                         /\ hist[k].errs2 = SubSeq(errs, 1, j))

\* ["hover", "resize -99"]: two 400 entries and no 200.
C6_Witness ==
    /\ pc = "done"
    /\ cmds = << <<<<"h","o","v","e","r">>>>, <<RESIZE, <<"-","9","9">>>> >>
    /\ Len(errs) = 2
    /\ errs[1][1] = 400
    /\ errs[2][1] = 400

\* The listed ways an operation fails: an unknown tag, a flip axis other than
\* horizontal/vertical, a rotate spec that is not an integer or is out of
\* range, a resize percent out of range.
ListedFailure(cmd) ==
    /\ cmd # <<>>
    /\ \/ cmd[1] \notin Tags
       \/ cmd[1] = FLIP /\ Len(cmd) >= 2 /\ cmd[2] \notin {HORIZONTAL, VERTICAL}
       \/ /\ cmd[1] = ROTATE /\ Len(cmd) >= 2 /\ cmd[2] \notin {LEFT, RIGHT}
          /\ LET d == PyInt(IF cmd[2][1] = "+" THEN Tail(cmd[2]) ELSE cmd[2])
             IN  ~d.ok \/ d.val < -10000 \/ d.val > 10000
       \/ /\ cmd[1] = RESIZE /\ Len(cmd) >= 2
          /\ LET p == PyInt(cmd[2])
             IN  p.ok /\ (p.val < -95 \/ p.val > 500)

\* The three kinds of effect of one command.
OnlyImage(e) ==
    e.img2 # e.img /\ e.thumbnail2 = e.thumbnail /\ e.errs2 = e.errs
OnlyThumbnail(e) ==
    /\ e.img2 = e.img /\ e.errs2 = e.errs
    /\ Len(e.thumbnail2) = Len(e.thumbnail) + 1
    /\ IsPrefixOf(e.thumbnail, e.thumbnail2)
OnlyStatus(e) ==
    e.img2 = e.img /\ e.thumbnail2 = e.thumbnail /\ AppendsOne400(e.errs, e.errs2)

\* The effect of a command that returned, by its tag.
EffectByTag(e) ==
    /\ OnlyImage(e) \/ OnlyThumbnail(e) \/ OnlyStatus(e)
    /\ (OnlyThumbnail(e) <=> (e.cmd # <<>> /\ e.cmd[1] = THUMBNAIL))
    /\ (ListedFailure(e.cmd) => OnlyStatus(e))
    /\ (OnlyImage(e) => e.cmd[1] \in {FLIP, ROTATE, GREYSCALE, RESIZE})

\* C7: every operation has exactly one kind of effect on the pipeline state:
\* a successful flip, rotate, greyscale or resize changes only the primary
\* image; thumbnail only appends one entry to the thumbnail list; a failing
\* operation only appends one 400 status entry.
C7_OneEffect ==
    \A k \in 1..Len(hist) : hist[k].cmd # <<>> => EffectByTag(hist[k])

\* What holds of C7: every operation that returns has exactly one kind of
\* effect, the one its tag and arguments call for.
C7_ReturningOps ==
    \A k \in 1..Len(hist) : hist[k].raised = "none" => EffectByTag(hist[k])

ThumbnailRows(rows) == {k \in 1..Len(rows) : rows[k] # <<>> /\ rows[k][1] = THUMBNAIL}

\* Thumbnail j of the list th is the 200x200 resample of the primary image as
\* the j-th thumbnail command found it.
ThumbnailsOfHistory(th) ==
    LET T == {k \in 1..Len(hist) : hist[k].cmd # <<>> /\ hist[k].cmd[1] = THUMBNAIL
                                   /\ hist[k].raised = "none"}
    IN  /\ Len(th) = Cardinality(T)
        /\ \A k \in T :
              LET j == Cardinality({t \in T : t <= k})
                  src == hist[k].img
              IN  /\ th[j].w = 200
                  /\ th[j].h = 200
                  /\ th[j].ch = src.ch
                  /\ th[j].px = Append(src.px, [fn |-> "resize", a |-> 200, b |-> 200])

\* The secondary artifacts the call produced: the files written after the
\* primary one.
Secondaries == IF written = <<>> THEN <<>> ELSE Tail(written)

\* C8: for every operation list, the number of secondary artifacts produced
\* equals the number of thumbnail operations in the list, in the order of
\* their commands; thumbnail k is a 200x200 resample of the primary image as
\* it was after the operations before the k-th thumbnail command, and later
\* operations never replace or alter it.  (Stated for the lists whose rows
\* all carry a tag.)
C8_Thumbnails ==
    (pc \in {"done", "raised"} /\ \A k \in 1..Len(cmds) : cmds[k] # <<>>) =>
        /\ Len(Secondaries) = Cardinality(ThumbnailRows(cmds))
        /\ Len(proc_new_thumbnail) = Len(Secondaries)
        /\ \A j \in 1..Len(Secondaries) : Secondaries[j].name = proc_new_thumbnail[j]
        /\ ThumbnailsOfHistory([j \in 1..Len(Secondaries) |-> Secondaries[j].image])

\* What holds of C8: at every moment the thumbnail list holds one entry per
\* thumbnail command executed so far, each the resample of the primary image
\* of that moment, and a run that completes writes exactly these.
C8_ThumbnailsSoFar ==
    /\ ThumbnailsOfHistory(thumbnail)
    /\ (pc = "done" =>
           /\ Len(hist) = Len(cmds)
           /\ Len(Secondaries) = Cardinality(ThumbnailRows(cmds))
           /\ ThumbnailsOfHistory([j \in 1..Len(Secondaries) |-> Secondaries[j].image]))

\* The last OpenCV primitive applied to an image.
LastPrim(im) == im.px[Len(im.px)]

\* C9 as stated: resize accepts an integer percent p if and only if
\* -95 <= p <= 500: outside that range a 400 status is appended and the
\* dimensions are unchanged; inside it no status is appended and width and
\* height are both scaled by (100 + p) / 100 (to the nearest pixel).
ScaledBy(n, n2, p) == n2 * 100 - n * (100 + p) \in -50..50
C9_ResizeAsStated ==
    \A k \in 1..Len(hist) :
        LET e == hist[k]
        IN  (e.cmd # <<>> /\ e.cmd[1] = RESIZE /\ Len(e.cmd) = 2 /\ SpecInt(e.cmd[2]).ok) =>
                LET p == SpecInt(e.cmd[2]).val
                IN  IF p < -95 \/ p > 500
                    THEN /\ AppendsOne400(e.errs, e.errs2)
                         /\ e.img2.w = e.img.w /\ e.img2.h = e.img.h
                    ELSE /\ e.errs2 = e.errs
                         /\ ScaledBy(e.img.w, e.img2.w, p)
                         /\ ScaledBy(e.img.h, e.img2.h, p)

\* C9, amended: outside -95..500 a 400 status is appended and the image is
\* unchanged.  Inside it, either no status is appended, the thumbnails are
\* untouched and the image is resampled to width and height scaled by
\* (100 + p) / 100, each rounded to the nearest pixel and at least 1; or a
\* scaled dimension rounds to 0, cv2.resize raises, a 400 status is appended
\* and the image is unchanged.
C9_Resize ==
    \A k \in 1..Len(hist) :
        LET e == hist[k]
        IN  (e.cmd # <<>> /\ e.cmd[1] = RESIZE /\ Len(e.cmd) = 2 /\ SpecInt(e.cmd[2]).ok) =>
                LET p == SpecInt(e.cmd[2]).val
                IN  /\ e.raised = "none"
                    /\ e.thumbnail2 = e.thumbnail
                    /\ IF p < -95 \/ p > 500
                       THEN AppendsOne400(e.errs, e.errs2) /\ e.img2 = e.img
                       ELSE \/ /\ e.errs2 = e.errs
                               /\ e.img2.w >= 1 /\ e.img2.h >= 1
                               /\ ScaledBy(e.img.w, e.img2.w, p)
                               /\ ScaledBy(e.img.h, e.img2.h, p)
                               /\ e.img2.ch = e.img.ch
                               /\ e.img2.px = Append(e.img.px,
                                                     [fn |-> "resize", a |-> e.img2.w, b |-> e.img2.h])
                            \/ /\ e.img.w * (100 + p) <= 50 \/ e.img.h * (100 + p) <= 50
                               /\ AppendsOne400(e.errs, e.errs2)
                               /\ e.img2 = e.img

\* resize 500, the upper bound, is accepted: 40 x 30 becomes 240 x 180.
C9_Witness ==
    /\ pc = "done"
    /\ Len(hist) = 1
    /\ hist[1].img.w = 40 /\ hist[1].img.h = 30
    /\ hist[1].cmd = <<RESIZE, <<"5","0","0">>>>
    /\ img.w = 240 /\ img.h = 180
    /\ errs[1][1] = 200

\* C10: rotate "left" applies +90 and "right" -90; a numeric spec d (one
\* leading '+' stripped) is accepted if and only if -10000 <= d <= 10000,
\* otherwise a 400 status is appended and the image is not changed; an
\* accepted d is normalised to r = d mod 360 (d >= 0) or -((-d) mod 360)
\* (d < 0) and the rotation applied is -r, which lies strictly between -360
\* and 360 and is congruent to -d modulo 360.
AppliedRotation(e, angle) ==
    /\ e.raised = "none"
    /\ e.errs2 = e.errs
    /\ e.thumbnail2 = e.thumbnail
    /\ Len(e.img2.px) = Len(e.img.px) + 1
    /\ LastPrim(e.img2) = [fn |-> "warpAffine", a |-> angle, b |-> 0]
C10_Rotate ==
    \A k \in 1..Len(hist) :
        LET e == hist[k]
        IN  (e.cmd # <<>> /\ e.cmd[1] = ROTATE /\ Len(e.cmd) = 2) =>
                LET spec == e.cmd[2]
                    num == SpecInt(IF spec[1] = "+" THEN Tail(spec) ELSE spec)
                    d == num.val
                    r == IF d >= 0 THEN d % 360 ELSE 0 - ((0 - d) % 360)
                IN  /\ (spec = LEFT => AppliedRotation(e, 90))
                    /\ (spec = RIGHT => AppliedRotation(e, -90))
                    /\ (num.ok /\ (d < -10000 \/ d > 10000) =>
                           /\ e.raised = "none"
                           /\ AppendsOne400(e.errs, e.errs2)
                           /\ e.img2 = e.img)
                    /\ (num.ok /\ d >= -10000 /\ d <= 10000 =>
                           /\ AppliedRotation(e, 0 - r)
                           /\ 0 - r > -360 /\ 0 - r < 360
                           /\ ((0 - r) + d) % 360 = 0)

\* rotate -10000 is accepted: r = -280, rotation 280.
C10_Witness ==
    /\ pc = "done"
    /\ Len(hist) = 1
    /\ hist[1].cmd = <<ROTATE, <<"-","1","0","0","0","0">>>>
    /\ LastPrim(img).a = 280
    /\ errs[1][1] = 200

\* The integer a rotate command names (one leading '+' stripped).
RotateArg(e) ==
    IF e.cmd # <<>> /\ e.cmd[1] = ROTATE /\ Len(e.cmd) = 2
    THEN SpecInt(IF e.cmd[2][1] = "+" THEN Tail(e.cmd[2]) ELSE e.cmd[2])
    ELSE [ok |-> FALSE, val |-> 0]
InRangeRotate(e) ==
    RotateArg(e).ok /\ RotateArg(e).val >= -10000 /\ RotateArg(e).val <= 10000
SameSize(a, b) == a.w = b.w /\ a.h = b.h

\* C11: identity parameters leave the dimensions of the primary image
\* unchanged: rotate by 0, by 360 and by -360 each give an output whose
\* bounding box is the input's (w, h), resize by 0 gives the same width and
\* height, and none of them appends a status entry.
C11_Identity ==
    \A k \in 1..Len(hist) :
        LET e == hist[k]
        IN  /\ (RotateArg(e).ok /\ RotateArg(e).val \in {0, 360, -360} =>
                   /\ e.raised = "none"
                   /\ e.errs2 = e.errs
                   /\ SameSize(e.img2, e.img)
                   /\ LastPrim(e.img2).fn = "warpAffine"
                   /\ Len(e.img2.px) = Len(e.img.px) + 1)
            /\ (e.cmd # <<>> /\ e.cmd[1] = RESIZE /\ Len(e.cmd) = 2
                   /\ SpecInt(e.cmd[2]).ok /\ SpecInt(e.cmd[2]).val = 0 =>
                   /\ e.raised = "none"
                   /\ e.errs2 = e.errs
                   /\ SameSize(e.img2, e.img)
                   /\ LastPrim(e.img2).fn = "resize"
                   /\ Len(e.img2.px) = Len(e.img.px) + 1)

\* rotate -360 of a 40 x 30 upload: warped into a 40 x 30 box, status 200.
C11_Witness ==
    /\ pc = "done"
    /\ Len(hist) = 1
    /\ hist[1].cmd = <<ROTATE, <<"-","3","6","0">>>>
    /\ hist[1].img.w = 40 /\ hist[1].img.h = 30
    /\ img.w = 40 /\ img.h = 30
    /\ LastPrim(img) = [fn |-> "warpAffine", a |-> 0, b |-> 0]
    /\ errs = <<<<SUCCESS_200, "Sucessfully processed image">>>>

MinSide(im) == IF im.w <= im.h THEN im.w ELSE im.h
BoundsCoverMinSide ==
    \A k \in 1..Len(hist) :
        InRangeRotate(hist[k]) =>
            /\ hist[k].img2.w >= MinSide(hist[k].img)
            /\ hist[k].img2.h >= MinSide(hist[k].img)
\* Consecutive commands rotate d, rotate -d, both in range.
RoundTripAt(k) ==
    /\ k < Len(hist)
    /\ InRangeRotate(hist[k]) /\ InRangeRotate(hist[k + 1])
    /\ RotateArg(hist[k + 1]).val = 0 - RotateArg(hist[k]).val

\* C12 as stated: for any in-range rotation d of a w x h image the expanded
\* dimensions are both at least min(w, h), and rotate d followed by
\* rotate -d brings the dimensions back to (w, h).
C12_RoundTripAsStated ==
    /\ BoundsCoverMinSide
    /\ \A k \in 1..Len(hist) :
          RoundTripAt(k) => SameSize(hist[k + 1].img2, hist[k].img)

\* C12, amended: for any in-range rotation d of a w x h image the expanded
\* dimensions are both at least min(w, h); rotate d followed by rotate -d
\* brings the dimensions back to (w, h) when d is a multiple of 90, and for
\* any d the second rotation expands the box of the first one by the same
\* formula, so that neither dimension ends below min(w, h).
C12_RoundTrip ==
    /\ BoundsCoverMinSide
    /\ \A k \in 1..Len(hist) :
          RoundTripAt(k) =>
              /\ (RotateArg(hist[k]).val % 90 = 0 =>
                     SameSize(hist[k + 1].img2, hist[k].img))
              /\ hist[k + 1].img = hist[k].img2
              /\ hist[k + 1].img2.w >= MinSide(hist[k].img)
              /\ hist[k + 1].img2.h >= MinSide(hist[k].img)

\* rotate 270 then rotate -270 of a 40 x 30 upload: 30 x 40, then 40 x 30.
C12_Witness ==
    /\ pc = "done"
    /\ Len(hist) = 2
    /\ hist[1].cmd = <<ROTATE, <<"2","7","0">>>>
    /\ hist[2].cmd = <<ROTATE, <<"-","2","7","0">>>>
    /\ hist[1].img.w = 40 /\ hist[1].img.h = 30
    /\ hist[2].img.w = 30 /\ hist[2].img.h = 40
    /\ img.w = 40 /\ img.h = 30

(***************************************************************************)
(* Claims about the reply stream (checked under SpecStream).               *)
(***************************************************************************)
NThumbs == Len(t_thumbnails)

\* What a frame is on the wire: data or control, its slot, and for a data
\* frame the asset name and the byte range carried.
FrameShape(fr) ==
    IF fr.filename = NEW_FILE_INCOMING /\ fr.img_chunk_data = NoBytes
    THEN <<"control", fr.file_num>>
    ELSE IF Len(fr.img_chunk_data) = 1 /\ fr.img_chunk_data[1].f = fr.filename
    THEN <<"data", fr.file_num, fr.filename, fr.img_chunk_data[1].lo, fr.img_chunk_data[1].hi>>
    ELSE <<"malformed">>

\* The data frames an artifact of length len is due: its consecutive
\* 64 KiB ranges, in order.
ChunkCount(len) == (len + 65535) \div 65536
ExpectedData(name, slot, len) ==
    [k \in 1..ChunkCount(len) |->
        <<"data", slot, name, (k - 1) * 65536, Min(k * 65536, len)>>]

\* The frames due from secondary artifact i (0-based) on.
RECURSIVE ExpectedSecondaries(_)
ExpectedSecondaries(i) ==
    IF i >= NThumbs THEN <<>>
    ELSE ExpectedData(t_thumbnails[i + 1], i, filelen[t_thumbnails[i + 1]])
         \o (IF i < NThumbs - 1 THEN <<<<"control", i + 1>>>> ELSE <<>>)
         \o ExpectedSecondaries(i + 1)

ExpectedWire ==
    ExpectedData(t_img, 0, filelen[t_img]) \o <<<<"control", 0>>>> \o ExpectedSecondaries(0)

WireShape == [k \in 1..Len(wire) |-> FrameShape(wire[k])]

\* C1: the sender emits the primary's data frames (slot 0) in chunk order,
\* then one control frame with slot 0 (also when there is no secondary), then
\* for each secondary i its data frames with slot i, followed by one control
\* frame with slot i + 1 exactly when i is not the last secondary.  At every
\* moment the frames emitted are a prefix of that sequence, and when the
\* generator has returned they are all of it.
C1_FrameSequence ==
    /\ Len(wire) <= Len(ExpectedWire)
    /\ WireShape = SubSeq(ExpectedWire, 1, Len(wire))
    /\ (spos.at = "end" => Len(wire) = Len(ExpectedWire))

\* No control frame follows the last secondary; one precedes each secondary.
C1_Witness ==
    /\ spos.at = "end"
    /\ NThumbs = 2
    /\ filelen[t_img] > 65536
    /\ filelen[t_thumbnails[2]] > 65536
    /\ Cardinality({k \in 1..Len(wire) : wire[k].filename = NEW_FILE_INCOMING}) = 2
    /\ wire[Len(wire)].filename # NEW_FILE_INCOMING

\* C2: fed the sender's complete frame sequence for a primary P and n >= 1
\* secondaries, the receiver loop ends with a primary buffer equal to P's
\* bytes under P's name, and exactly n secondary buffers, buffer i equal to
\* T_i's bytes under T_i's name, in creation order.
C2_RoundTrip ==
    (rpc = "done" /\ NThumbs >= 1) =>
        /\ new_img = Content(t_img, filelen[t_img])
        /\ new_img_name = t_img
        /\ Len(new_thumbnail) = NThumbs
        /\ Len(new_thumbnail_name) = NThumbs
        /\ \A i \in 1..NThumbs :
              /\ new_thumbnail[i] = Content(t_thumbnails[i], filelen[t_thumbnails[i]])
              /\ new_thumbnail_name[i] = t_thumbnails[i]
        /\ client_writes =
              <<[name |-> "client_" \o t_img, data |-> Content(t_img, filelen[t_img])]>>
              \o [i \in 1..NThumbs |->
                    [name |-> "client_" \o t_thumbnails[i],
                     data |-> Content(t_thumbnails[i], filelen[t_thumbnails[i]])]]

C2_Witness ==
    /\ rpc = "done"
    /\ NThumbs = 2
    /\ filelen[t_img] > 65536
    /\ filelen[t_thumbnails[1]] > 65536
    /\ filelen[t_thumbnails[2]] > 65536
    /\ Len(response_dict.thumbnail) = 2

\* C3: the receiver reports as many secondary artifacts as the sender had;
\* with zero secondaries (primary data, the one control frame, end of stream)
\* it yields an empty secondary list and a non-empty primary buffer.
C3_ZeroSecondaries ==
    rpc = "done" =>
        /\ Len(response_dict.thumbnail) = NThumbs
        /\ (NThumbs = 0 => response_dict.thumbnail = <<>> /\ new_img # NoBytes)

\* "<code>, <message>\n" per entry of the status list, in order.
RECURSIVE SerializedStatus(_)
SerializedStatus(es) ==
    IF es = <<>> THEN <<>>
    ELSE LET last == es[Len(es)]
         IN  SerializedStatus(SubSeq(es, 1, Len(es) - 1))
             \o IntToStr(last[1]) \o <<",", " ">> \o <<last[2]>> \o <<"\n">>

\* C19: every frame of a call, data and control alike, carries the same
\* status text, the serialization of the call's whole status list as
\* "<code>, <message>\n" per entry in order; the receiver keeps the value of
\* the frame it processed last, so after any non-empty prefix of the stream
\* its status value is the sender's serialized status list.
C19_StatusText ==
    /\ \A k \in 1..Len(wire) : wire[k].errors = SerializedStatus(t_errs)
    /\ (rcv >= 1 =>
          /\ error_msg.kind = "str"
          /\ error_msg.s = wire[rcv].errors
          /\ error_msg.s = SerializedStatus(t_errs))

\* Two status entries, carried by a data frame and by a control frame, both
\* processed by the receiver.
C19_Witness ==
    /\ Len(t_errs) = 2
    /\ rcv = 2
    /\ wire[1].filename = t_img
    /\ wire[2].filename = NEW_FILE_INCOMING
    /\ error_msg.s = <<"4","0","0",",", " ", "invalid function", "\n",
                       "4","0","0",",", " ", "Cannot resize/scale by less than -95%", "\n">>

\* buf holds the first bytes of the file name, or nothing.
IsPrefixBytes(buf, name) ==
    \/ buf = NoBytes
    \/ /\ Len(buf) = 1
       /\ buf[1].f = name /\ buf[1].lo = 0 /\ buf[1].hi <= filelen[name]

\* C20: a truncated stream is a partial result.  After every prefix of the
\* sender's frame sequence the receiver loop has met no protocol error, its
\* primary buffer is a prefix of the primary artifact's bytes, and its
\* secondary slots are slots of the sender's secondary artifacts: slot j
\* holds a prefix of artifact j's bytes, all of them for every slot before
\* the last one opened.
C20_PartialResult ==
    /\ rpc # "failed"
    /\ IsPrefixBytes(new_img, t_img)
    /\ Len(new_thumbnail) <= NThumbs
    /\ \A j \in 1..Len(new_thumbnail) :
          /\ IsPrefixBytes(new_thumbnail[j], t_thumbnails[j])
          /\ (j < Len(new_thumbnail) =>
                 new_thumbnail[j] = Content(t_thumbnails[j], filelen[t_thumbnails[j]]))

\* The part of C20 the code keeps: no protocol error, prefixes of the
\* artifacts in the primary buffer and in the slots of existing secondaries;
\* with no secondary artifact the slot opened by control frame 0 is empty.
C20_PartialButForEmptySlot ==
    /\ rpc # "failed"
    /\ IsPrefixBytes(new_img, t_img)
    /\ Len(new_thumbnail) <= (IF NThumbs = 0 THEN 1 ELSE NThumbs)
    /\ \A j \in 1..Len(new_thumbnail) :
          IF j > NThumbs THEN new_thumbnail[j] = NoBytes
          ELSE /\ IsPrefixBytes(new_thumbnail[j], t_thumbnails[j])
               /\ (j < Len(new_thumbnail) =>
                      new_thumbnail[j] = Content(t_thumbnails[j], filelen[t_thumbnails[j]]))

(***************************************************************************)
(* Claims about a whole call (checked under SpecCall).                     *)
(***************************************************************************)
RECURSIVE Concat(_)
Concat(chunks) ==
    IF chunks = <<>> THEN NoBytes
    ELSE BytesCat(Concat(SubSeq(chunks, 1, Len(chunks) - 1)), chunks[Len(chunks)])

\* The chunks are consecutive slices of file f from its start, each one
\* non-empty and at most 64 KiB, all but the last exactly 64 KiB, none past
\* the end of the file; if complete, together they are the whole file.
WellChunked(chunks, f, len, complete) ==
    /\ \A k \in 1..Len(chunks) :
          /\ Len(chunks[k]) = 1
          /\ chunks[k][1].f = f
          /\ chunks[k][1].lo = (IF k = 1 THEN 0 ELSE chunks[k - 1][1].hi)
          /\ chunks[k][1].hi > chunks[k][1].lo
          /\ chunks[k][1].hi - chunks[k][1].lo <= 64 * 1024
          /\ chunks[k][1].hi <= len
          /\ (k < Len(chunks) => chunks[k][1].hi - chunks[k][1].lo = 64 * 1024)
    /\ Concat(chunks) =
          Content(f, IF chunks = <<>> THEN 0 ELSE chunks[Len(chunks)][1].hi)
    /\ (complete => Concat(chunks) = Content(f, len))
    /\ (complete /\ len = 0 => chunks = <<>>)

UploadChunks == [k \in 1..Len(requests) |-> requests[k].chunk_data]
DataFramesOf(name) == SelectSeq(wire, LAMBDA fr : fr.filename = name)
ArtifactChunks(name) ==
    [k \in 1..Len(DataFramesOf(name)) |-> DataFramesOf(name)[k].img_chunk_data]

\* C13: chunking of the upload (_transmit_img) and of every artifact
\* (transmit_img): the chunks emitted are consecutive slices of the buffer
\* in order, each non-empty and at most 64 KiB, all but possibly the last
\* exactly 64 KiB; once the buffer is exhausted their concatenation is the
\* buffer, and an empty buffer gives no chunk.  The server's concatenation
\* of the upload chunks it received is a prefix of the client's source
\* bytes, and all of them when the request iterator is exhausted.
C13_Chunking ==
    /\ WellChunked(UploadChunks, "src", c_src.len, c_tpos.at = "end")
    /\ img_binary = Concat(SubSeq(UploadChunks, 1, s_i))
    /\ (s_pc \in {"stream", "aborted"} => img_binary = Content("src", c_src.len))
    /\ \A name \in DOMAIN filelen :
          WellChunked(ArtifactChunks(name), name, filelen[name], spos.at = "end")

\* A 64 KiB + 1 byte upload went up in two chunks, a 64 KiB + 1 byte
\* thumbnail came back in two, and the generator has returned.
C13_Witness ==
    /\ c_src.len = 64 * 1024 + 1
    /\ Len(requests) = 2
    /\ img_binary = <<Slice("src", 0, 64 * 1024 + 1)>>
    /\ spos.at = "end"
    /\ Len(t_thumbnails) = 1
    /\ filelen[t_thumbnails[1]] = 64 * 1024 + 1
    /\ Len(ArtifactChunks(t_thumbnails[1])) = 2
    /\ Len(ArtifactChunks(t_img)) = 1

\* C14: the temporary artifacts of a call are released right after their
\* own last chunk is emitted: the primary file is deleted before the first
\* control frame or any secondary frame is emitted, the file of secondary
\* artifact i is deleted before any later frame (control frame i + 1 or data
\* of artifact i + 1) is emitted, and once the client has consumed the whole
\* frame sequence the uploaded temporary file, the primary file and every
\* thumbnail file have been deleted.
C14_ImmediateRelease ==
    /\ (\E k \in 1..Len(wire) :
            wire[k].filename = NEW_FILE_INCOMING \/ wire[k].filename # t_img)
          => t_img \notin disk
    /\ \A j \in 1..Len(t_thumbnails) :
          (\E k \in 1..Len(wire) : wire[k].file_num >= j) => t_thumbnails[j] \notin disk
    /\ (rpc = "done" => disk = {})

\* The part of C14 the code keeps: the primary file is gone before the first
\* control frame, the file of artifact i is gone before any data of artifact
\* i + 1, and nothing is left once the stream has been consumed.
C14_ReleasedBeforeNextData ==
    /\ (wire # <<>> /\ wire[Len(wire)].filename # t_img) => t_img \notin disk
    /\ \A j \in 1..Len(t_thumbnails) :
          (\E k \in 1..Len(wire) :
              wire[k].file_num >= j /\ wire[k].filename # NEW_FILE_INCOMING)
            => t_thumbnails[j] \notin disk
    /\ (rpc = "done" => disk = {})

\* C16: on a top-level failure process_image returns no reconstructed image
\* and no thumbnails together with an explicit failure indicator: 400 for
\* an unsupported or missing file extension, else 404 for a missing source
\* file, 500 when the call is aborted or the transport fails; nothing is
\* written, and the result differs from every successful result, whose image
\* is always a "client_..." file name.
C16_TopLevelFailure ==
    /\ (rpc # "init" /\ c_src.type \notin IMG_TYPES) =>
          /\ rpc = "refused"
          /\ response_dict = [img |-> "", thumbnail |-> <<>>,
                              responses |-> "400, invalid file type/missing extension"]
    /\ (rpc # "init" /\ c_src.type \in IMG_TYPES /\ ~c_src.exists) =>
          /\ rpc = "failed"
          /\ response_dict = [img |-> "None", thumbnail |-> "None",
                              responses |-> "404, file does not exist"]
    /\ (rpc = "failed" /\ c_src.exists) =>
          response_dict = [img |-> "None", thumbnail |-> "None",
                           responses |-> "500, Unable to connect to server"]
    /\ (rpc \in {"failed", "refused"} => client_writes = <<>>)
    /\ (s_pc = "aborted" => rpc \in {"recv", "failed"})
    /\ (rpc = "done" =>
          /\ response_dict.img \notin {"", "None"}
          /\ response_dict.img = "client_" \o new_img_name
          /\ client_writes # <<>>)

\* The transport failed after the client had received data of the primary
\* artifact: the partial image is dropped and the result is the 500 one.
C16_Witness ==
    /\ rpc = "failed"
    /\ s_pc = "stream"
    /\ rcv >= 1
    /\ new_img # NoBytes
    /\ response_dict.responses = "500, Unable to connect to server"
    /\ response_dict.img = "None"


(***************************************************************************)
(* Claims about concurrent calls (checked under SpecConcurrent).           *)
(***************************************************************************)
\* The j-th frame call c yields when it runs alone: data of the primary
\* artifact, control frame 0, then for each thumbnail its data and, if
\* another one follows, the next control frame.
AloneFrame(c, j) ==
    LET call == calls[c]
        k == (j - 1) \div 2
    IN  IF j % 2 = 1
        THEN [filename |-> ArtifactName(call, k),
              img_chunk_data |-> [owner |-> c, part |-> PartName(k)],
              file_num |-> IF k = 0 THEN 0 ELSE k - 1,
              errors |-> error_string(CallStatus(c))]
        ELSE [filename |-> NEW_FILE_INCOMING, img_chunk_data |-> NoContent,
              file_num |-> (j \div 2) - 1,
              errors |-> error_string(CallStatus(c))]
AloneLength(c) == IF calls[c].n = 0 THEN 2 ELSE 2 * calls[c].n + 1

\* The buffers the client of call c holds after rcv frames of that sequence.
AloneImg(c) ==
    IF calls[c].rcv >= 1 THEN <<[owner |-> c, part |-> "img"]>> ELSE <<>>
AloneThumbnails(c) ==
    [s \in 1..(calls[c].rcv \div 2) |->
        IF calls[c].rcv >= 2 * s + 1 THEN <<[owner |-> c, part |-> PartName(s)]>> ELSE <<>>]

IsControl(j) == wire[j].filename = NEW_FILE_INCOMING
ControlsBefore(j) == Cardinality({k \in 1..(j - 1) : IsControl(k)})

\* Frame j is a data frame for a slot no control frame before it opened.
Anomaly(j) ==
    /\ ~IsControl(j)
    /\ IF ControlsBefore(j) = 0 THEN wire[j].file_num # 0
       ELSE wire[j].file_num \notin 0..(ControlsBefore(j) - 1)

\* The byte carried by frame j is in the buffer.
HoldsByte(buf, j) == \E s \in 1..Len(buf) : buf[s].lo < j /\ j <= buf[s].hi
InSomeBuffer(j) ==
    HoldsByte(new_img, j) \/ \E s \in 1..Len(new_thumbnail) : HoldsByte(new_thumbnail[s], j)

\* C17: a framing anomaly is fatal for the call.  On any frame sequence, a
\* data frame whose slot index names a secondary slot no preceding control
\* frame has opened, or a data frame with a non-zero slot index before any
\* control frame, ends the call with a failure result: the loop stops at
\* that frame and its bytes are appended to no buffer.
C17_AnomaliesFatal ==
    \A j \in 1..rcv :
        Anomaly(j) =>
            /\ rpc = "failed"
            /\ rcv = j
            /\ ~InSomeBuffer(j)
            /\ response_dict.img = "None"

\* The part of C17 the code keeps: once a control frame has been received, a
\* data frame whose slot index is at or beyond the number of slots opened
\* ends the call with the 500 result and its bytes are dropped.
C17_BeyondLastSlotFatal ==
    \A j \in 1..rcv :
        (~IsControl(j) /\ ControlsBefore(j) > 0 /\ wire[j].file_num >= ControlsBefore(j)) =>
            /\ rpc = "failed"
            /\ rcv = j
            /\ ~InSomeBuffer(j)
            /\ response_dict = [img |-> "None", thumbnail |-> "None",
                                responses |-> "500, Unable to connect to server"]

\* C18: a stream of zero frames is a degenerate success.  At end of stream
\* the receiver returns a normal result with an empty primary buffer, no
\* secondary slot and an empty status list.
C18_ZeroFrames ==
    (wire = <<>> /\ rpc # "recv") =>
        /\ rpc = "done"
        /\ new_img = NoBytes
        /\ new_thumbnail = <<>>
        /\ response_dict.responses = <<>>
        /\ response_dict.thumbnail = <<>>

(***************************************************************************)
(* Claims about the request loop on any request sequence (checked under    *)
(* SpecRequests).                                                          *)
(***************************************************************************)
InconsistentRequests ==
    \E j \in 1..Len(requests), k \in 1..Len(requests) :
        \/ requests[j].image_type # requests[k].image_type
        \/ requests[j].image_ops # requests[k].image_ops

\* C21: the asset type and the operation text carried by the request frames
\* of a call are validated for consistency: if two frames of the call carry
\* different image_type or image_ops values the server fails the call; it
\* does not go on with the values of the last frame.
C21_ConsistentRequests ==
    (s_pc # "recv" /\ InconsistentRequests) => s_pc = "aborted"

\* What the code does: the values of the last request are the ones used.
C21_LastRequestWins ==
    (s_pc # "recv" /\ requests # <<>>) =>
        /\ s_ops = requests[Len(requests)].image_ops
        /\ s_img_type = requests[Len(requests)].image_type
        /\ (s_pc = "stream" => t_type = requests[Len(requests)].image_type)

(***************************************************************************)
(* Claims about the slot indices of the sender's stream (checked under     *)
(* SpecStream).                                                            *)
(***************************************************************************)
\* C22: while the receiver consumes a stream of the sender, every data
\* frame received after the first control frame has a slot index equal to
\* the number of control frames received so far minus one: it addresses the
\* slot allocated last, so the index is in range and chunks of different
\* secondary artifacts never meet in one slot; and every control frame's
\* slot index is the index of the slot the receiver allocates for it.
C22_SlotIndex ==
    /\ rpc # "failed"
    /\ Len(new_thumbnail) = ControlsBefore(rcv + 1)
    /\ \A j \in 1..rcv :
          IF IsControl(j)
          THEN wire[j].file_num = ControlsBefore(j)
          ELSE ControlsBefore(j) >= 1 =>
                  /\ wire[j].file_num = ControlsBefore(j) - 1
                  /\ wire[j].file_num \in 0..(Len(new_thumbnail) - 1)
    /\ \A s \in 1..Len(new_thumbnail) :
          /\ Len(new_thumbnail[s]) <= 1
          /\ (new_thumbnail[s] # NoBytes =>
                 /\ new_thumbnail[s][1].f = new_thumbnail_name[s]
                 /\ new_thumbnail[s][1].f = t_thumbnails[s])

\* Two thumbnails of two chunks each, all frames received: the data frames
\* of the second one carry slot index 1 after control frame 1.
C22_Witness ==
    /\ NThumbs = 2
    /\ spos.at = "end"
    /\ rcv = Len(wire)
    /\ filelen[t_thumbnails[1]] = 64 * 1024 + 1
    /\ filelen[t_thumbnails[2]] = 64 * 1024 + 1
    /\ wire[rcv].file_num = 1
    /\ wire[rcv - 1].file_num = 1
    /\ ~IsControl(rcv) /\ ~IsControl(rcv - 1)
    /\ IsControl(rcv - 2)
    /\ new_thumbnail[2] = <<Slice(t_thumbnails[2], 0, 64 * 1024 + 1)>>

(***************************************************************************)
(* Claims about the receiver's two states (checked under SpecRecv).        *)
(***************************************************************************)
\* C23: on any frame sequence, once the receiver has seen its first control
\* frame it stays in the receiving-secondary state for the rest of the call:
\* from then on the primary buffer and the primary name are never modified,
\* the number of secondary slots never decreases, and at every moment that
\* number equals the number of control frames received.
C23_Monotone ==
    /\ [](/\ Len(new_thumbnail) = ControlsBefore(rcv + 1)
          /\ Len(new_thumbnail_name) = Len(new_thumbnail)
          /\ (encountered_thumbnail <=> ControlsBefore(rcv + 1) >= 1))
    /\ [][/\ Len(new_thumbnail') >= Len(new_thumbnail)
          /\ (encountered_thumbnail =>
                 /\ encountered_thumbnail'
                 /\ new_img' = new_img
                 /\ new_img_name' = new_img_name)]_vars

\* Primary data under the name "a", a control frame, then a data frame named
\* "b" for slot 0: it went to the slot and the primary kept its name.
C23_Witness ==
    /\ rcv = 3
    /\ rpc = "recv"
    /\ encountered_thumbnail
    /\ wire[1].filename = "a" /\ wire[2].filename = NEW_FILE_INCOMING
    /\ wire[3].filename = "b" /\ wire[3].file_num = 0
    /\ new_img = <<Slice("stream", 0, 1)>>
    /\ new_img_name = "a"
    /\ new_thumbnail = <<<<Slice("stream", 2, 3)>>>>
    /\ new_thumbnail_name = <<"b">>

(***************************************************************************)
(* Claims about the status list (checked under SpecStatus).                *)
(***************************************************************************)
\* C24: for every status list with newline-free messages, the list the
\* client returns in 'responses' has the same length and order as the
\* server's list, entry k being "<code_k>, <message_k>"; an empty status
\* text gives an empty list, and the newline that ends the text never gives
\* an extra empty entry.
C24_StatusRoundTrip ==
    rpc = "done" =>
        /\ Len(response_dict.responses) = Len(t_errs)
        /\ \A k \in 1..Len(t_errs) :
              response_dict.responses[k] =
                  IntToStr(t_errs[k][1]) \o <<",", " ", t_errs[k][2]>>
        /\ (error_msg.s = <<>> => response_dict.responses = <<>>)
        /\ \A k \in 1..Len(response_dict.responses) :
              response_dict.responses[k] # <<>>

\* Two failures and then a success came back as three entries in that order.
C24_Witness ==
    /\ rpc = "done"
    /\ t_errs = << <<ERROR_400, "invalid function">>,
                   <<ERROR_400, "list index out of range">>,
                   <<SUCCESS_200, "Sucessfully processed image">> >>
    /\ response_dict.responses =
          << <<"4", "0", "0", ",", " ", "invalid function">>,
             <<"4", "0", "0", ",", " ", "list index out of range">>,
             <<"2", "0", "0", ",", " ", "Sucessfully processed image">> >>

=============================================================================
